---- MODULE Spec2Model ----
(***************************************************************************)
(* Route analysis of the Hono editor extension.                            *)
(*                                                                         *)
(* A source text is a sequence of one-character strings; every offset is   *)
(* a JavaScript offset (0-based).  The regular expressions of the source   *)
(* are evaluated on the characters; the TypeScript syntax tree of a text   *)
(* is the sequence of statements the text is rendered from.                *)
(***************************************************************************)
EXTENDS Integers, Sequences, FiniteSets, TLC

VARIABLES
  op,          \* the exported function that ran last ("none" after load)
  prog,        \* the statements of the text given to that call
  text,        \* the characters of the text given to that call
  opts,        \* its excludeComments option: "true", "false" or "omitted"
  tsFails,     \* environment: the TypeScript analysis raises an exception
  routes,      \* the ParsedRoute list the call returned
  raised,      \* whether the call ended in an exception instead of a result
  reLastIndex, \* ROUTE_CALL_RE.lastIndex, the module-level regex position
  reAtCall,    \* ROUTE_CALL_RE.lastIndex as the last call found it
  examples,    \* the ParsedJSDocExample list the call returned
  path,        \* the route path given to the path parameter functions
  values,      \* the values given to applyPathParams, by name
  names,       \* the list extractPathParamNames returned
  resolved,    \* the string applyPathParams returned
  params,      \* the parameters given to buildBundledHonoRequestArgv
  argv,        \* the argument list buildBundledHonoRequestArgv returned
  run,         \* resolveInvocationInput: its arguments, position and locals
  lexer,       \* findCommentRanges: the text, the loop's locals and position
  lookup,      \* typeInference.ts: the input of a search and what it returned
  watch,       \* runRequestWatchInTerminal: the invocations and window.terminals
  command      \* a request command: its kind and what it did after the prompts

vars == <<op, prog, text, opts, tsFails, routes, raised, reLastIndex, reAtCall,
          examples, path, values, names, resolved, params, argv, run, lexer,
          lookup, watch, command>>

(***************************************************************************)
(* Characters and character classes of the regular expressions.            *)
(***************************************************************************)
Lower == {"a","b","c","d","e","f","g","h","i","j","k","l","m",
          "n","o","p","q","r","s","t","u","v","w","x","y","z"}
Upper == {"A","B","C","D","E","F","G","H","I","J","K","L","M",
          "N","O","P","Q","R","S","T","U","V","W","X","Y","Z"}
Digit == {"0","1","2","3","4","5","6","7","8","9"}

\* \w
WordChar == Lower \cup Upper \cup Digit \cup {"_"}
\* [A-Za-z_$]
IdStart == Lower \cup Upper \cup {"_", "$"}
\* [\w$]
IdPart == WordChar \cup {"$"}
\* \s (the white space that occurs in the modelled texts)
Space == {" ", "\t", "\n", "\r", "\f"}
\* the line terminators after which ^ matches under the m flag
LineTerminator == {"\n", "\r"}
\* U+0060, the template-literal quote: the one character a TLA+ string cannot
\* hold, so this one element of a text is written as a word
BackTick == "BACKTICK"
\* the three quote characters of the path pattern and of the comment lexer
Quote == {"'", "\"", BackTick}

\* text[i] for a 0-based offset i; "" past the end, as the next character read by the lexer
CharAt(t, i) == IF i >= 0 /\ i < Len(t) THEN t[i + 1] ELSE ""

\* text.slice(a, b)
Slice(t, a, b) == IF b <= a THEN <<>> ELSE SubSeq(t, a + 1, b)

\* text.startsWith(w, i)
StartsWithAt(t, w, i) ==
  /\ i + Len(w) <= Len(t)
  /\ \A k \in 1..Len(w) : t[i + k] = w[k]

\* the first offset j in i..Len(t) that is Len(t) or holds a character of
\* class cls: where a scan that steps over the other characters stops
SkipUntil(t, i, cls) ==
  IF i >= Len(t) THEN i
  ELSE CHOOSE j \in i..Len(t) :
         /\ j = Len(t) \/ t[j + 1] \in cls
         /\ \A k \in i..(j - 1) : t[k + 1] \notin cls

\* the end of the longest run of characters of class cls that starts at i
SkipWhile(t, i, cls) ==
  IF i >= Len(t) THEN i
  ELSE CHOOSE j \in i..Len(t) :
         /\ j = Len(t) \/ t[j + 1] \notin cls
         /\ \A k \in i..(j - 1) : t[k + 1] \in cls

(***************************************************************************)
(* The words of the source.                                                *)
(***************************************************************************)
W_get     == <<"g","e","t">>
W_post    == <<"p","o","s","t">>
W_put     == <<"p","u","t">>
W_delete  == <<"d","e","l","e","t","e">>
W_patch   == <<"p","a","t","c","h">>
W_options == <<"o","p","t","i","o","n","s">>
W_head    == <<"h","e","a","d">>

\* the alternation (get|post|put|delete|patch|options|head), in its order,
\* which is also the validMethods list of the syntax-tree strategy
validMethods == <<W_get, W_post, W_put, W_delete, W_patch, W_options, W_head>>

NoMatch == [found |-> FALSE, index |-> 0, prefixLen |-> 0, method |-> <<>>, end |-> 0]

\* (get|...|head)\s*\( at offset i: the first alternative that lets the rest match
MatchMethodAt(t, i) ==
  LET ok(k) == /\ StartsWithAt(t, validMethods[k], i)
               /\ CharAt(t, SkipWhile(t, i + Len(validMethods[k]), Space)) = "("
      hits == {k \in 1..Len(validMethods) : ok(k)}
  IN IF hits = {} THEN [found |-> FALSE, method |-> <<>>, end |-> 0]
     ELSE LET k == CHOOSE k \in hits : \A j \in hits : k <= j
          IN [found |-> TRUE, method |-> validMethods[k],
              end |-> SkipWhile(t, i + Len(validMethods[k]), Space) + 1]

\* ([A-Za-z_$][\w$]*)\s*\.\s*(method)\s*\( with the identifier starting at idAt
MatchCallFrom(t, idAt) ==
  IF CharAt(t, idAt) \notin IdStart THEN [found |-> FALSE, method |-> <<>>, end |-> 0]
  ELSE LET idEnd == SkipWhile(t, idAt + 1, IdPart)
           dot   == SkipWhile(t, idEnd, Space)
       IN IF CharAt(t, dot) # "." THEN [found |-> FALSE, method |-> <<>>, end |-> 0]
          ELSE MatchMethodAt(t, SkipWhile(t, dot + 1, Space))

\* ^ under the m flag
AtLineStart(t, s) == s = 0 \/ CharAt(t, s - 1) \in LineTerminator

\* ROUTE_CALL_RE anchored at offset s: (^|[^\w$]) then the call
RouteCallReAt(t, s) ==
  LET viaStart == IF AtLineStart(t, s) THEN MatchCallFrom(t, s)
                  ELSE [found |-> FALSE, method |-> <<>>, end |-> 0]
      viaChar  == IF s < Len(t) /\ CharAt(t, s) \notin IdPart THEN MatchCallFrom(t, s + 1)
                  ELSE [found |-> FALSE, method |-> <<>>, end |-> 0]
  IN IF viaStart.found
       THEN [found |-> TRUE, index |-> s, prefixLen |-> 0,
             method |-> viaStart.method, end |-> viaStart.end]
     ELSE IF viaChar.found
       THEN [found |-> TRUE, index |-> s, prefixLen |-> 1,
             method |-> viaChar.method, end |-> viaChar.end]
     ELSE NoMatch

\* ROUTE_CALL_RE.exec(t) with lastIndex = from: the leftmost match at or after from
RouteCallReExec(t, from) ==
  LET at == {s \in from..Len(t) : RouteCallReAt(t, s).found}
  IN IF at = {} THEN NoMatch
     ELSE RouteCallReAt(t, CHOOSE s \in at : \A r \in at : s <= r)

\* afterParen.match(/^\s*(q)([^q]+)\1/), q any of the three quote characters,
\* for afterParen = text.slice(from)
PathLiteralAt(t, from) ==
  LET q == SkipWhile(t, from, Space)
      e == SkipUntil(t, q + 1, Quote)
  IN IF CharAt(t, q) \in Quote /\ e > q + 1 /\ CharAt(t, e) = CharAt(t, q)
       THEN [found |-> TRUE, path |-> Slice(t, q + 1, e), end |-> e + 1]
     ELSE [found |-> FALSE, path |-> <<>>, end |-> 0]

(***************************************************************************)
(* Comment ranges.                                                         *)
(***************************************************************************)
RECURSIVE CommentScan(_, _, _, _, _)
\* The while loop of findCommentRanges and the two pushes after it, from offset
\* i on; mode is "code", "line", "block" or the quote character of the open
\* string.  The loop reads one character per iteration; the characters that
\* leave its variables unchanged are stepped over at once:
\*   in a string, up to the next backslash (escape: the character after it is
\*   skipped) or closing quote; in a line comment, up to the newline; in a block
\*   comment, up to the next star; in code, up to the next quote or slash.
CommentScan(t, i, mode, start, ranges) ==
  IF i >= Len(t) THEN
    IF mode \in {"line", "block"}
      THEN Append(ranges, [start |-> start, end |-> Len(t)])
    ELSE ranges
  ELSE IF mode \in Quote THEN
    LET j == SkipUntil(t, i, {"\\", mode})
    IN IF CharAt(t, j) = "\\" THEN CommentScan(t, j + 2, mode, start, ranges)
       ELSE CommentScan(t, j + 1, "code", start, ranges)
  ELSE IF mode = "line" THEN
    LET j == SkipUntil(t, i, {"\n"})
    IN IF j < Len(t)
         THEN CommentScan(t, j + 1, "code", start,
                          Append(ranges, [start |-> start, end |-> j]))
       ELSE CommentScan(t, j, mode, start, ranges)
  ELSE IF mode = "block" THEN
    LET j == SkipUntil(t, i, {"*"})
    IN IF j < Len(t) /\ CharAt(t, j + 1) = "/"
         THEN CommentScan(t, j + 2, "code", start,
                          Append(ranges, [start |-> start, end |-> j + 2]))
       ELSE CommentScan(t, j + 1, mode, start, ranges)
  ELSE
    LET j    == SkipUntil(t, i, Quote \cup {"/"})
        ch   == CharAt(t, j)
        next == CharAt(t, j + 1)
    IN IF ch \in Quote THEN CommentScan(t, j + 1, ch, start, ranges)
       ELSE IF ch = "/" /\ next = "/" THEN CommentScan(t, j + 2, "line", j, ranges)
       ELSE IF ch = "/" /\ next = "*" THEN CommentScan(t, j + 2, "block", j, ranges)
       ELSE CommentScan(t, j + 1, mode, start, ranges)

findCommentRanges(t) == CommentScan(t, 0, "code", 0, <<>>)

isInRanges(pos, ranges) ==
  \E k \in 1..Len(ranges) : pos >= ranges[k].start /\ pos < ranges[k].end

\* opts?.excludeComments === false ? [] : findCommentRanges(text)
CommentRangesFor(t, o) == IF o = "false" THEN <<>> ELSE findCommentRanges(t)

(***************************************************************************)
(* String helpers.                                                         *)
(***************************************************************************)
LowerSeq == <<"a","b","c","d","e","f","g","h","i","j","k","l","m",
              "n","o","p","q","r","s","t","u","v","w","x","y","z">>
UpperSeq == <<"A","B","C","D","E","F","G","H","I","J","K","L","M",
              "N","O","P","Q","R","S","T","U","V","W","X","Y","Z">>

\* String.prototype.toLowerCase, one character
LowerChar(c) ==
  IF c \in Upper THEN LowerSeq[CHOOSE k \in 1..26 : UpperSeq[k] = c] ELSE c

\* String.prototype.toLowerCase
toLowerCase(w) == [k \in 1..Len(w) |-> LowerChar(w[k])]

\* String.prototype.toUpperCase, one character
UpperChar(c) ==
  IF c \in Lower THEN UpperSeq[CHOOSE k \in 1..26 : LowerSeq[k] = c] ELSE c

toUpperCase(w) == [k \in 1..Len(w) |-> UpperChar(w[k])]

RECURSIVE Concat(_)
\* the concatenation of a sequence of texts
Concat(ws) == IF ws = <<>> THEN <<>> ELSE Head(ws) \o Concat(Tail(ws))

RECURSIVE Join(_, _)
\* Array.prototype.join
Join(ws, sep) ==
  IF ws = <<>> THEN <<>>
  ELSE IF Len(ws) = 1 THEN ws[1]
  ELSE ws[1] \o sep \o Join(Tail(ws), sep)

(***************************************************************************)
(* Source texts and their syntax trees.                                    *)
(*                                                                         *)
(* A text is given as its statements, one per line.  An expression is      *)
(*   [e |-> "lit", q, v]      a string literal quoted by q with text v; q  *)
(*                            = BackTick is a no-substitution template     *)
(*   [e |-> "id", name]       an identifier                                *)
(*   [e |-> "bin", l, r]      l + r (r is never itself a "bin": a + b + c  *)
(*                            parses as (a + b) + c)                       *)
(*   [e |-> "tpl", head, spans]  a template with spans [x, lit]            *)
(*   [e |-> "call", fn]       fn()                                         *)
(*   [e |-> "mem", obj, prop] obj.prop                                     *)
(* and a statement is                                                      *)
(*   [k |-> "call", lead, recv, method, args]   lead recv.method(args)     *)
(*   [k |-> "chain", lead, inner, method, args] inner.method(args), for a  *)
(*                                              call statement inner       *)
(*   [k |-> "const", name, init]                const name = init          *)
(*   [k |-> "let", name, init]                  let name = init            *)
(*   [k |-> "nested", decl]                     { decl }, for a declaration *)
(*                                              statement decl             *)
(*   [k |-> "line", inner]                      // inner                   *)
(*   [k |-> "block", inner]                     /* inner */                *)
(* createSourceFile returns the tree of these statements; a comment is     *)
(* trivia and has no node.                                                 *)
(***************************************************************************)
W_const == <<"c","o","n","s","t">>
W_let   == <<"l","e","t">>

RECURSIVE RenderExpr(_)
RECURSIVE RenderSpans(_)
RenderSpans(spans) ==
  IF spans = <<>> THEN <<>>
  ELSE <<"$", "{">> \o RenderExpr(spans[1].x) \o <<"}">> \o spans[1].lit
       \o RenderSpans(Tail(spans))

\* the source text of an expression
RenderExpr(x) ==
  CASE x.e = "lit"  -> <<x.q>> \o x.v \o <<x.q>>
    [] x.e = "id"   -> x.name
    [] x.e = "bin"  -> RenderExpr(x.l) \o <<" ", "+", " ">> \o RenderExpr(x.r)
    [] x.e = "tpl"  -> <<BackTick>> \o x.head \o RenderSpans(x.spans) \o <<BackTick>>
    [] x.e = "call" -> x.fn \o <<"(", ")">>
    [] x.e = "mem"  -> x.obj \o <<".">> \o x.prop

RECURSIVE RenderItem(_)
\* the source text of a statement
RenderItem(it) ==
  CASE it.k = "call"  ->
         it.lead \o it.recv \o <<".">> \o it.method \o <<"(">>
         \o (IF "gap" \in DOMAIN it THEN it.gap ELSE <<>>)
         \o Join([k \in 1..Len(it.args) |-> RenderExpr(it.args[k])], <<",", " ">>)
         \o <<")">>
    [] it.k = "chain" ->
         RenderItem(it.inner) \o <<".">> \o it.method \o <<"(">>
         \o Join([k \in 1..Len(it.args) |-> RenderExpr(it.args[k])], <<",", " ">>)
         \o <<")">>
    [] it.k = "const" ->
         W_const \o <<" ">> \o it.name \o <<" ", "=", " ">> \o RenderExpr(it.init)
    [] it.k = "let" ->
         W_let \o <<" ">> \o it.name \o <<" ", "=", " ">> \o RenderExpr(it.init)
    [] it.k = "nested" -> <<"{", " ">> \o RenderItem(it.decl) \o <<" ", "}">>
    [] it.k = "line"  -> <<"/", "/", " ">> \o RenderItem(it.inner)
    [] it.k = "block" -> <<"/", "*", " ">> \o RenderItem(it.inner) \o <<" ", "*", "/">>

\* the text of a program: its statements joined by newlines
SourceText(p) == Join([k \in 1..Len(p) |-> RenderItem(p[k])], <<"\n">>)

RECURSIVE ItemOffset(_, _)
\* the offset of the first character of statement k
ItemOffset(p, k) ==
  IF k = 1 THEN 0 ELSE ItemOffset(p, k - 1) + Len(RenderItem(p[k - 1])) + 1

\* node.expression.expression.getStart(sourceFile, false): the first character
\* of the receiver, after the leading white space
ReceiverStart(p, k) == ItemOffset(p, k) + Len(p[k].lead)

(***************************************************************************)
(* The path expression resolver.  A result is [st, s]: st = "val" with the *)
(* string s, st = "null", or st = "throw" when the recursion never ends    *)
(* (RangeError: Maximum call stack size exceeded).                         *)
(***************************************************************************)
Val(s) == [st |-> "val", s |-> s]
Null   == [st |-> "null", s |-> <<>>]
Throw  == [st |-> "throw", s |-> <<>>]

\* one span: ${name} for an identifier, ${...} otherwise, then the literal text
SpanText(sp) ==
  (IF sp.x.e = "id" THEN <<"$", "{">> \o sp.x.name \o <<"}">>
   ELSE <<"$", "{", ".", ".", ".", "}">>) \o sp.lit

\* stringifyTemplateExpression without the literal text of the spans
stringifyTemplateExpression_noSpanText(x) ==
  x.head \o Concat([k \in 1..Len(x.spans) |-> SpanText([x |-> x.spans[k].x, lit |-> <<>>])])

stringifyTemplateExpression(x) ==
  x.head \o Concat([k \in 1..Len(x.spans) |-> SpanText(x.spans[k])])

RECURSIVE resolveRoutePathExpression(_, _, _)
RECURSIVE EvaluateFrom(_, _, _, _)

\* ts.isVariableDeclaration(node) for the node a statement holds: the
\* declaration of a const or let statement, at the top level or in a block
HasVariableDeclaration(it) == it.k \in {"const", "let", "nested"}

\* that VariableDeclaration node
VariableDeclarationOf(it) == IF it.k = "nested" THEN it.decl ELSE it

\* the visit of evaluateConstantString from statement k on: the first
\* declaration of varName whose initializer resolves
EvaluateFrom(varName, p, k, stack) ==
  IF k > Len(p) THEN Null
  ELSE IF HasVariableDeclaration(p[k]) /\ VariableDeclarationOf(p[k]).name = varName
    THEN LET r == resolveRoutePathExpression(VariableDeclarationOf(p[k]).init, p, stack)
         IN IF r.st = "null" THEN EvaluateFrom(varName, p, k + 1, stack) ELSE r
  ELSE EvaluateFrom(varName, p, k + 1, stack)

\* evaluateConstantString with a visit that misses the first statement
evaluateConstantString_skipFirst(varName, p, stack) ==
  IF varName \in stack THEN Throw
  ELSE EvaluateFrom(varName, p, 2, stack \cup {varName})

\* stack: the identifiers whose evaluation is in progress; meeting one of
\* them again repeats the same calls without end
evaluateConstantString(varName, p, stack) ==
  IF varName \in stack THEN Throw
  ELSE EvaluateFrom(varName, p, 1, stack \cup {varName})

resolveRoutePathExpression(x, p, stack) ==
  IF x.e = "lit" THEN Val(x.v)
  ELSE IF x.e = "tpl" THEN Val(stringifyTemplateExpression(x))
  ELSE IF x.e = "id" THEN evaluateConstantString(x.name, p, stack)
  ELSE IF x.e = "bin" THEN
    LET left == resolveRoutePathExpression(x.l, p, stack)
    IN IF left.st = "throw" THEN Throw
       ELSE LET right == resolveRoutePathExpression(x.r, p, stack)
            IN IF right.st = "throw" THEN Throw
               ELSE IF left.st = "val" /\ right.st = "val" THEN Val(left.s \o right.s)
               ELSE Null
  ELSE Null

(***************************************************************************)
(* The two strategies and their selection.                                 *)
(***************************************************************************)
ParsedRoute(m, pth, at) == [method |-> m, path |-> pth, callStartIndex |-> at]

IsValidMethod(m) == \E k \in 1..Len(validMethods) : validMethods[k] = m

\* match.index + prefix.length, without the boundary character
RegexCallStart_atMatchIndex(m) == m.index

\* match.index + prefix.length
RegexCallStart(m) == m.index + m.prefixLen

RECURSIVE RegexLoop(_, _, _, _)
\* the while loop of parseRoutesWithRegex, lastIndex = from
RegexLoop(t, from, ranges, acc) ==
  LET m == RouteCallReExec(t, from)
  IN IF ~m.found THEN acc
     ELSE LET callStartIndex == RegexCallStart(m)
              pathMatch      == PathLiteralAt(t, m.end)
          IN IF ~pathMatch.found THEN RegexLoop(t, m.end, ranges, acc)
             ELSE IF Len(ranges) > 0 /\ isInRanges(callStartIndex, ranges)
               THEN RegexLoop(t, m.end, ranges, acc)
             ELSE RegexLoop(t, m.end, ranges,
                            Append(acc, ParsedRoute(toLowerCase(m.method),
                                                    pathMatch.path, callStartIndex)))

parseRoutesWithRegex(t, o) == RegexLoop(t, 0, CommentRangesFor(t, o), <<>>)

\* VisitCall without the test of resolvedPath
VisitCall_noPathTest(p, k, ranges) ==
  LET it == p[k]
  IN IF ~IsValidMethod(it.method) \/ Len(it.args) = 0
       THEN [st |-> "ok", routes |-> <<>>]
     ELSE LET r == resolveRoutePathExpression(it.args[1], p, {})
          IN IF r.st = "throw" THEN [st |-> "throw", routes |-> <<>>]
             ELSE [st |-> "ok",
                   routes |-> <<ParsedRoute(toLowerCase(it.method), r.s,
                                            ReceiverStart(p, k))>>]

\* what visit does at the call expression of statement k: the route it pushes
\* (at most one), or "throw"
VisitCall(p, k, ranges) ==
  LET it == p[k]
  IN IF ~IsValidMethod(it.method) \/ Len(it.args) = 0
       THEN [st |-> "ok", routes |-> <<>>]
     ELSE LET r == resolveRoutePathExpression(it.args[1], p, {})
          IN IF r.st = "throw" THEN [st |-> "throw", routes |-> <<>>]
             ELSE IF r.st = "null" \/ r.s = <<>> THEN [st |-> "ok", routes |-> <<>>]
             ELSE IF Len(ranges) > 0 /\ isInRanges(ReceiverStart(p, k), ranges)
               THEN [st |-> "ok", routes |-> <<>>]
             ELSE [st |-> "ok",
                   routes |-> <<ParsedRoute(toLowerCase(it.method), r.s,
                                            ReceiverStart(p, k))>>]

\* two visits one after the other: the routes of both, or "throw"
VisitBoth(first, second) ==
  IF first.st = "throw" THEN first
  ELSE IF second.st = "throw" THEN second
  ELSE [st |-> "ok", routes |-> first.routes \o second.routes]

RECURSIVE VisitReceiver(_, _, _)
\* forEachChild at the chained call of statement k reaches the call
\* expression that is its receiver, at the same offset in the text; q is
\* the program with that receiver in the place of statement k
VisitReceiver(q, k, ranges) ==
  IF q[k].k = "chain"
  THEN VisitBoth(VisitCall(q, k, ranges),
                 VisitReceiver([q EXCEPT ![k] = q[k].inner], k, ranges))
  ELSE VisitCall(q, k, ranges)

RECURSIVE VisitFrom(_, _, _, _)
RECURSIVE VisitChain(_, _, _, _, _)
\* visit(sourceFile): the statements in order
VisitFrom(p, k, ranges, acc) ==
  IF k > Len(p) THEN [st |-> "ok", routes |-> acc]
  ELSE IF p[k].k = "chain" THEN VisitChain(p, k, ranges, acc, VisitCall(p, k, ranges))
  ELSE IF p[k].k # "call" THEN VisitFrom(p, k + 1, ranges, acc)
  ELSE LET v == VisitCall(p, k, ranges)
       IN IF v.st = "throw" THEN v
          ELSE VisitFrom(p, k + 1, ranges, acc \o v.routes)

\* visit at a chained call: the outer call expression gave outer, then
\* forEachChild reaches the call expression that is its receiver, and the
\* walk goes on with the statements after the whole chain
VisitChain(p, k, ranges, acc, outer) ==
  IF VisitBoth(outer, VisitReceiver([p EXCEPT ![k] = p[k].inner], k, ranges)).st = "throw"
  THEN [st |-> "throw", routes |-> <<>>]
  ELSE VisitFrom(p, k + 1, ranges,
                 acc \o VisitBoth(outer,
                                  VisitReceiver([p EXCEPT ![k] = p[k].inner], k, ranges)).routes)

\* fails: createSourceFile or the walk raises
parseRoutesWithAST(p, t, o, fails) ==
  IF fails THEN [st |-> "throw", routes |-> <<>>]
  ELSE VisitFrom(p, 1, CommentRangesFor(t, o), <<>>)

\* parseRoutesFromText without its try/catch
parseRoutesFromText_noCatch(p, t, o, fails) ==
  LET astRoutes == parseRoutesWithAST(p, t, o, fails)
  IN IF astRoutes.st = "throw" THEN [raised |-> TRUE, routes |-> <<>>]
     ELSE IF Len(astRoutes.routes) > 0 THEN [raised |-> FALSE, routes |-> astRoutes.routes]
     ELSE [raised |-> FALSE, routes |-> parseRoutesWithRegex(t, o)]

\* the result of the call: the routes returned, or raised
parseRoutesFromText(p, t, o, fails) ==
  LET astRoutes == parseRoutesWithAST(p, t, o, fails)
  IN IF astRoutes.st = "ok" /\ Len(astRoutes.routes) > 0
       THEN [raised |-> FALSE, routes |-> astRoutes.routes]
     ELSE [raised |-> FALSE, routes |-> parseRoutesWithRegex(t, o)]

(***************************************************************************)
(* The module of routeParser.ts: the regex-only parseRoutesFromText and    *)
(* the @example extractor, which share the module-level ROUTE_CALL_RE.     *)
(* Each function takes the lastIndex it finds and returns the lastIndex it *)
(* leaves.                                                                 *)
(***************************************************************************)
\* ROUTE_CALL_RE of routeParser.ts anchored at s: the call, then
\* \s*(quote)([^quote]+)\4 in the same expression
NoPathMatch == [found |-> FALSE, index |-> 0, prefixLen |-> 0, method |-> <<>>,
                path |-> <<>>, end |-> 0]

\* the match made of the call c and the path literal l that follows it
CallWithPath(c, l) ==
  IF c.found /\ l.found
    THEN [found |-> TRUE, index |-> c.index, prefixLen |-> c.prefixLen,
          method |-> c.method, path |-> l.path, end |-> l.end]
  ELSE NoPathMatch

\* the call c followed by \s*(quote)([^quote]+)\4
CallThenPath(t, c) == CallWithPath(c, PathLiteralAt(t, c.end))

RouteCallPathReAt(t, s) == CallThenPath(t, RouteCallReAt(t, s))

\* the least member of a non-empty set of offsets
Least(at) == CHOOSE s \in at : \A r \in at : s <= r

\* the match at the least of the offsets at which the expression matches
LeftmostPathMatch(t, at) ==
  IF at = {} THEN NoPathMatch ELSE RouteCallPathReAt(t, Least(at))

\* ROUTE_CALL_RE.exec(t) with lastIndex = from
RouteCallPathReExec(t, from) ==
  LeftmostPathMatch(t, {s \in from..Len(t) : RouteCallPathReAt(t, s).found})

RECURSIVE RouteLoop(_, _, _, _)
\* the body of the while loop of parseRoutesFromText (routeParser.ts) for the
\* exec result m
RouteStep(t, m, ranges, acc) ==
  IF ~m.found THEN acc
  ELSE IF Len(ranges) > 0 /\ isInRanges(m.index + m.prefixLen, ranges)
    THEN RouteLoop(t, m.end, ranges, acc)
  ELSE RouteLoop(t, m.end, ranges,
                 Append(acc, ParsedRoute(toLowerCase(m.method), m.path,
                                         m.index + m.prefixLen)))

\* the while loop of parseRoutesFromText (routeParser.ts), lastIndex = from
RouteLoop(t, from, ranges, acc) ==
  RouteStep(t, RouteCallPathReExec(t, from), ranges, acc)

\* parseRoutesFromText of routeParser.ts without ROUTE_CALL_RE.lastIndex = 0
parseRoutesRegexOnly_noReset(t, o, li) ==
  [routes |-> RouteLoop(t, li, CommentRangesFor(t, o), <<>>), lastIndex |-> 0]

\* parseRoutesFromText of routeParser.ts: lastIndex is set to 0, and the loop
\* ends on a failed exec, which leaves it at 0
parseRoutesRegexOnly(t, o, li) ==
  [routes |-> RouteLoop(t, 0, CommentRangesFor(t, o), <<>>), lastIndex |-> 0]

\* what findFollowingRoute returns for the exec result m, and the lastIndex
\* the exec leaves
FollowingRouteOf(m) ==
  IF m.found
    THEN [found |-> TRUE, method |-> toLowerCase(m.method), path |-> m.path,
          lastIndex |-> m.end]
  ELSE [found |-> FALSE, method |-> <<>>, path |-> <<>>, lastIndex |-> 0]

\* findFollowingRoute: one exec on text.slice(startIndex), from lastIndex 0
findFollowingRoute(t, startIndex, li) ==
  FollowingRouteOf(RouteCallPathReExec(Slice(t, startIndex, Len(t)), 0))

\* text.indexOf(w), -1 when w does not occur
IndexOf(t, w) ==
  LET at == {i \in 0..Len(t) : StartsWithAt(t, w, i)}
  IN IF at = {} THEN -1 ELSE CHOOSE i \in at : \A j \in at : i <= j

RECURSIVE SplitLines(_)
\* text.split('\n')
SplitLines(t) ==
  LET j == SkipUntil(t, 0, {"\n"})
  IN IF j >= Len(t) THEN <<t>>
     ELSE <<Slice(t, 0, j)>> \o SplitLines(Slice(t, j + 1, Len(t)))

\* String.prototype.trim
Trim(w) ==
  LET a == SkipWhile(w, 0, Space)
      ends == {e \in a..Len(w) : \A k \in e..(Len(w) - 1) : CharAt(w, k) \in Space}
  IN Slice(w, a, CHOOSE e \in ends : \A f \in ends : e <= f)

\* line.replace(/^\s*\*?\s?/, '')
stripJSDocLinePrefix(line) ==
  LET a == SkipWhile(line, 0, Space)
      b == IF CharAt(line, a) = "*" THEN a + 1 ELSE a
      c == IF CharAt(line, b) \in Space THEN b + 1 ELSE b
  IN Slice(line, c, Len(line))

W_atExample == <<"@","e","x","a","m","p","l","e">>

HTTP_METHODS == <<toUpperCase(W_get), toUpperCase(W_post), toUpperCase(W_put),
                  toUpperCase(W_delete), toUpperCase(W_patch),
                  toUpperCase(W_options), toUpperCase(W_head)>>

\* findHttpMethodInLine: the first method the line starts with that is followed
\* by white space or an opening brace, when the line holds an opening brace
findHttpMethodInLine(trimmedLine) ==
  LET after(k) == Slice(trimmedLine, Len(HTTP_METHODS[k]), Len(trimmedLine))
      ok(k) == /\ StartsWithAt(trimmedLine, HTTP_METHODS[k], 0)
               /\ \/ CharAt(after(k), SkipWhile(after(k), 0, Space)) = "{"
                  \/ CharAt(after(k), 0) \in Space
               /\ IndexOf(trimmedLine, <<"{">>) # -1
      hits == {k \in 1..Len(HTTP_METHODS) : ok(k)}
  IN IF hits = {} THEN [found |-> FALSE, method |-> <<>>, jsonStartInTrimmed |-> 0]
     ELSE [found |-> TRUE,
           method |-> HTTP_METHODS[CHOOSE k \in hits : \A j \in hits : k <= j],
           jsonStartInTrimmed |-> IndexOf(trimmedLine, <<"{">>)]

\* the number of characters ch among the first n characters of w
CountIn(w, ch, n) == Cardinality({i \in 1..n : w[i] = ch})

\* The inner loop of extractJsonBody over one line, entered with brace count b:
\* the offset of the closing brace that brings the count to 0, or -1, and the
\* count after the line.  The count after the first j characters is b plus
\* the opening minus the closing braces among them.
ScanBraces(content, b) ==
  LET bal(n) == b + CountIn(content, "{", n) - CountIn(content, "}", n)
      closes == {j \in 1..Len(content) : content[j] = "}" /\ bal(j) = 0}
  IN [closeAt |-> IF closes = {} THEN -1
                  ELSE (CHOOSE j \in closes : \A i \in closes : j <= i) - 1,
      after   |-> bal(Len(content))]

\* sum of lines[j].length + 1 for j in a..b (1-based)
RECURSIVE LineChars(_, _, _)
LineChars(lines, a, b) ==
  IF a > b THEN 0 ELSE Len(lines[a]) + 1 + LineChars(lines, a + 1, b)

NoJson == [found |-> FALSE, jsonBody |-> <<>>, consumedLines |-> 0, consumedChars |-> 0]

RECURSIVE ExtractFrom(_, _, _, _, _, _)
\* the loop body of extractJsonBody without the newline between lines
ExtractStep_noNewline(lines, startLineIndex, lineIdx, content, jsonStr, sc, trimmed) ==
  IF sc.closeAt >= 0
    THEN [found |-> TRUE,
          jsonBody |-> Trim(jsonStr \o Slice(content, 0, sc.closeAt + 1)),
          consumedLines |-> lineIdx - startLineIndex + 1,
          consumedChars |-> LineChars(lines, startLineIndex, lineIdx)]
  ELSE IF /\ lineIdx > startLineIndex
          /\ \/ StartsWithAt(trimmed, <<"@">>, 0)
             \/ trimmed = <<"*", "/">>
    THEN NoJson
  ELSE IF lineIdx + 1 > Len(lines) THEN NoJson
  ELSE ExtractFrom(lines, startLineIndex, lineIdx + 1,
                   stripJSDocLinePrefix(lines[lineIdx + 1]), sc.after,
                   jsonStr \o content)

\* the body of the for loop of extractJsonBody given what the inner loop did
\* on the line (sc) and the line with its prefix stripped (trimmed)
ExtractStep(lines, startLineIndex, lineIdx, content, jsonStr, sc, trimmed) ==
  IF sc.closeAt >= 0
    THEN [found |-> TRUE,
          jsonBody |-> Trim(jsonStr \o Slice(content, 0, sc.closeAt + 1)),
          consumedLines |-> lineIdx - startLineIndex + 1,
          consumedChars |-> LineChars(lines, startLineIndex, lineIdx)]
  ELSE IF /\ lineIdx > startLineIndex
          /\ \/ StartsWithAt(trimmed, <<"@">>, 0)
             \/ trimmed = <<"*", "/">>
    THEN NoJson
  ELSE IF lineIdx + 1 > Len(lines) THEN NoJson
  ELSE ExtractFrom(lines, startLineIndex, lineIdx + 1,
                   stripJSDocLinePrefix(lines[lineIdx + 1]), sc.after,
                   jsonStr \o content \o (IF sc.after > 0 THEN <<"\n">> ELSE <<>>))

\* the for loop of extractJsonBody at line lineIdx (1-based) with the line's
\* content, the brace count b and the text collected so far; the content starts
\* at the first opening brace, so `started` holds from its first character on
ExtractFrom(lines, startLineIndex, lineIdx, content, b, jsonStr) ==
  ExtractStep(lines, startLineIndex, lineIdx, content, jsonStr,
              ScanBraces(content, b), stripJSDocLinePrefix(lines[lineIdx]))

extractJsonBody(lines, startLineIndex, startTrimmedLine, jsonStartInTrimmed) ==
  ExtractFrom(lines, startLineIndex, startLineIndex,
              Slice(startTrimmedLine, jsonStartInTrimmed, Len(startTrimmedLine)),
              0, <<>>)

RECURSIVE ExamplesFrom(_, _, _, _, _, _)
\* the same with methodStartIndex taken within the line only
ExampleAt_noLineOffset(lines, jsdocStartIndex, i, currentLineOffset, inExample, results, methodMatch, jsonResult) ==
  IF inExample /\ methodMatch.found /\ jsonResult.found
    THEN ExamplesFrom(lines, jsdocStartIndex, i + jsonResult.consumedLines,
                      currentLineOffset + jsonResult.consumedChars, inExample,
                      Append(results,
                        [method |-> toLowerCase(methodMatch.method),
                         jsonBody |-> jsonResult.jsonBody,
                         methodStartIndex |->
                           jsdocStartIndex + IndexOf(lines[i], methodMatch.method)]))
  ELSE ExamplesFrom(lines, jsdocStartIndex, i + 1,
                    currentLineOffset + Len(lines[i]) + 1, inExample, results)

\* the part of the loop body of parseExamplesFromJSDoc that looks for
\* METHOD {json}, given what findHttpMethodInLine and extractJsonBody return
ExampleAt(lines, jsdocStartIndex, i, currentLineOffset, inExample, results, methodMatch, jsonResult) ==
  IF inExample /\ methodMatch.found /\ jsonResult.found
    THEN ExamplesFrom(lines, jsdocStartIndex, i + jsonResult.consumedLines,
                      currentLineOffset + jsonResult.consumedChars, inExample,
                      Append(results,
                        [method |-> toLowerCase(methodMatch.method),
                         jsonBody |-> jsonResult.jsonBody,
                         methodStartIndex |->
                           jsdocStartIndex + currentLineOffset
                           + IndexOf(lines[i], methodMatch.method)]))
  ELSE ExamplesFrom(lines, jsdocStartIndex, i + 1,
                    currentLineOffset + Len(lines[i]) + 1, inExample, results)

\* the loop body of parseExamplesFromJSDoc for the line with its prefix stripped
ExampleLine(lines, jsdocStartIndex, i, currentLineOffset, inExample, results, trimmedLine, methodMatch) ==
  IF StartsWithAt(trimmedLine, W_atExample, 0)
    THEN ExamplesFrom(lines, jsdocStartIndex, i + 1,
                      currentLineOffset + Len(lines[i]) + 1, TRUE, results)
  ELSE IF StartsWithAt(trimmedLine, <<"@">>, 0)
    THEN ExamplesFrom(lines, jsdocStartIndex, i + 1,
                      currentLineOffset + Len(lines[i]) + 1, FALSE, results)
  ELSE ExampleAt(lines, jsdocStartIndex, i, currentLineOffset, inExample, results,
                 methodMatch,
                 extractJsonBody(lines, i, trimmedLine, methodMatch.jsonStartInTrimmed))

\* the while loop of parseExamplesFromJSDoc at line i (1-based)
ExamplesFrom(lines, jsdocStartIndex, i, currentLineOffset, inExample, results) ==
  IF i > Len(lines) THEN results
  ELSE ExampleLine(lines, jsdocStartIndex, i, currentLineOffset, inExample, results,
                   stripJSDocLinePrefix(lines[i]),
                   findHttpMethodInLine(stripJSDocLinePrefix(lines[i])))

parseExamplesFromJSDoc(jsdocContent, jsdocStartIndex) ==
  ExamplesFrom(SplitLines(jsdocContent), jsdocStartIndex, 1, 0, FALSE, <<>>)

\* jsdocRe.exec(t) with lastIndex = from: the leftmost slash-star-star at or
\* after from that a star-slash follows, up to the first such star-slash
JsdocReExec(t, from) ==
  LET closeOf(i) == {j \in (i + 3)..Len(t) : StartsWithAt(t, <<"*", "/">>, j)}
      at == {i \in from..Len(t) :
               StartsWithAt(t, <<"/", "*", "*">>, i) /\ closeOf(i) # {}}
  IN IF at = {} THEN [found |-> FALSE, index |-> 0, end |-> 0]
     ELSE LET i == CHOOSE i \in at : \A r \in at : i <= r
              j == CHOOSE j \in closeOf(i) : \A r \in closeOf(i) : j <= r
          IN [found |-> TRUE, index |-> i, end |-> j + 2]

\* the pairing without the comparison of methods
Associate_all(found, route) ==
  [k \in 1..Len(found) |->
     [method |-> found[k].method, jsonBody |-> found[k].jsonBody,
      methodStartIndex |-> found[k].methodStartIndex,
      routePath |-> route.path, routeMethod |-> route.method]]

\* the examples of one block paired with the route that follows it
Associate(found, route) ==
  LET keep == SelectSeq(found, LAMBDA e : e.method = route.method)
  IN [k \in 1..Len(keep) |->
        [method |-> keep[k].method, jsonBody |-> keep[k].jsonBody,
         methodStartIndex |-> keep[k].methodStartIndex,
         routePath |-> route.path, routeMethod |-> route.method]]

RECURSIVE JsdocLoop(_, _, _, _)
\* the body of the while loop of parseJSDocExamplesFromText for the block b,
\* given its examples and the route findFollowingRoute returns; the route is
\* looked for, and lastIndex written, only when the block has examples
JsdocStep(t, b, li, results, found, route) ==
  IF Len(found) = 0 THEN JsdocLoop(t, b.end, li, results)
  ELSE IF ~route.found THEN JsdocLoop(t, b.end, route.lastIndex, results)
  ELSE JsdocLoop(t, b.end, route.lastIndex, results \o Associate(found, route))

\* the loop for the jsdocRe.exec result b
JsdocBlock(t, b, li, results) ==
  IF ~b.found THEN [examples |-> results, lastIndex |-> li]
  ELSE JsdocStep(t, b, li, results,
                 parseExamplesFromJSDoc(Slice(t, b.index, b.end), b.index),
                 findFollowingRoute(t, b.end, li))

\* the while loop of parseJSDocExamplesFromText; li is ROUTE_CALL_RE.lastIndex
JsdocLoop(t, from, li, results) == JsdocBlock(t, JsdocReExec(t, from), li, results)

parseJSDocExamplesFromText(t, li) == JsdocLoop(t, 0, li, <<>>)

(***************************************************************************)
(* Path parameters (pathParams.ts).                                        *)
(***************************************************************************)
\* [A-Za-z_]
NameStart == Lower \cup Upper \cup {"_"}

\* PATH_PARAM_RE anchored at i: a colon, a name start, then \w* greedily
PathParamReAt(p, i) ==
  IF CharAt(p, i) = ":" /\ CharAt(p, i + 1) \in NameStart
    THEN [found |-> TRUE, index |-> i,
          name |-> Slice(p, i + 1, SkipWhile(p, i + 1, WordChar)),
          end |-> SkipWhile(p, i + 1, WordChar)]
  ELSE [found |-> FALSE, index |-> 0, name |-> <<>>, end |-> 0]

\* the next match of PATH_PARAM_RE at or after from
PathParamReExec(p, from) ==
  LET at == {i \in from..Len(p) : PathParamReAt(p, i).found}
  IN IF at = {} THEN PathParamReAt(p, Len(p))
     ELSE PathParamReAt(p, CHOOSE i \in at : \A j \in at : i <= j)

InSeq(x, sq) == \E k \in 1..Len(sq) : sq[k] = x

RECURSIVE MatchAllNames_noSeen(_, _, _)
\* the loop of extractPathParamNames without the seen set
MatchAllNames_noSeen(p, from, acc) ==
  LET m == PathParamReExec(p, from)
  IN IF ~m.found THEN acc
     ELSE MatchAllNames_noSeen(p, m.end, Append(acc, m.name))

RECURSIVE MatchAllNames(_, _, _)
\* the loop of extractPathParamNames over routePath.matchAll(PATH_PARAM_RE);
\* acc holds the names pushed so far, which are the members of seen
MatchAllNames(p, from, acc) ==
  LET m == PathParamReExec(p, from)
  IN IF ~m.found THEN acc
     ELSE IF InSeq(m.name, acc) THEN MatchAllNames(p, m.end, acc)
     ELSE MatchAllNames(p, m.end, Append(acc, m.name))

extractPathParamNames_noSeen(p) == MatchAllNames_noSeen(p, 0, <<>>)

extractPathParamNames(p) == MatchAllNames(p, 0, <<>>)

\* the characters escapeRegex puts a backslash before
RegexMeta == {".", "*", "+", "?", "^", "$", "{", "}", "(", ")", "|", "[", "]", "\\"}

escapeRegex(w) ==
  Concat([k \in 1..Len(w) |-> IF w[k] \in RegexMeta THEN <<"\\", w[k]>> ELSE <<w[k]>>])

RECURSIVE RegexLiteral(_)
\* the string a pattern made of plain and backslash-escaped characters matches
RegexLiteral(src) ==
  IF Len(src) = 0 THEN <<>>
  ELSE IF src[1] = "\\" /\ Len(src) >= 2
    THEN <<src[2]>> \o RegexLiteral(SubSeq(src, 3, Len(src)))
  ELSE <<src[1]>> \o RegexLiteral(SubSeq(src, 2, Len(src)))

\* the characters encodeURIComponent leaves as they are
UriUnreserved == Lower \cup Upper \cup Digit
                 \cup {"-", "_", ".", "!", "~", "*", "'", "(", ")"}

\* the two hexadecimal digits of the ASCII characters it escapes
HexOf(c) ==
  CASE c = " "  -> <<"2", "0">>
    [] c = "\"" -> <<"2", "2">>
    [] c = "#"  -> <<"2", "3">>
    [] c = "$"  -> <<"2", "4">>
    [] c = "%"  -> <<"2", "5">>
    [] c = "&"  -> <<"2", "6">>
    [] c = "+"  -> <<"2", "B">>
    [] c = ","  -> <<"2", "C">>
    [] c = "/"  -> <<"2", "F">>
    [] c = ":"  -> <<"3", "A">>
    [] c = ";"  -> <<"3", "B">>
    [] c = "="  -> <<"3", "D">>
    [] c = "?"  -> <<"3", "F">>
    [] c = "@"  -> <<"4", "0">>
    [] c = "["  -> <<"5", "B">>
    [] c = "]"  -> <<"5", "D">>
    [] c = "{"  -> <<"7", "B">>
    [] c = "}"  -> <<"7", "D">>

encodeURIComponent(w) ==
  Concat([k \in 1..Len(w) |->
            IF w[k] \in UriUnreserved THEN <<w[k]>> ELSE <<"%">> \o HexOf(w[k])])

RECURSIVE ReplaceAll(_, _, _, _)
\* s.replace(new RegExp(pat, 'g'), rep) from offset from on, for a pattern
\* that matches the non-empty string pat and a replacement without $
ReplaceAll(s, from, pat, rep) ==
  LET at == {i \in from..Len(s) : StartsWithAt(s, pat, i)}
  IN IF at = {} THEN Slice(s, from, Len(s))
     ELSE LET i == CHOOSE i \in at : \A j \in at : i <= j
          IN Slice(s, from, i) \o rep \o ReplaceAll(s, i + Len(pat), pat, rep)

\* the value a caller supplied for a name, the empty string when none
SuppliedValue(vals, name) == IF name \in DOMAIN vals THEN vals[name] ELSE <<>>

\* '__proto__'
W_proto == <<"_","_","p","r","o","t","o","_","_">>

\* the names every object inherits from Object.prototype
ObjectPrototypeNames ==
  {<<"c","o","n","s","t","r","u","c","t","o","r">>,
   <<"_","_","d","e","f","i","n","e","G","e","t","t","e","r","_","_">>,
   <<"_","_","d","e","f","i","n","e","S","e","t","t","e","r","_","_">>,
   <<"h","a","s","O","w","n","P","r","o","p","e","r","t","y">>,
   <<"_","_","l","o","o","k","u","p","G","e","t","t","e","r","_","_">>,
   <<"_","_","l","o","o","k","u","p","S","e","t","t","e","r","_","_">>,
   <<"i","s","P","r","o","t","o","t","y","p","e","O","f">>,
   <<"p","r","o","p","e","r","t","y","I","s","E","n","u","m","e","r","a","b","l","e">>,
   <<"t","o","S","t","r","i","n","g">>,
   <<"v","a","l","u","e","O","f">>,
   <<"_","_","p","r","o","t","o","_","_">>,
   <<"t","o","L","o","c","a","l","e","S","t","r","i","n","g">>}

\* String(Object.prototype[name]), the text encodeURIComponent makes of an
\* inherited member: the source text of a native function, and
\* [object Object] for __proto__
InheritedText(name) ==
  IF name = W_proto THEN <<"[","o","b","j","e","c","t"," ","O","b","j","e","c","t","]">>
  ELSE IF name = <<"c","o","n","s","t","r","u","c","t","o","r">>
  THEN <<"f","u","n","c","t","i","o","n"," ","O","b","j","e","c","t","(",")"," ","{"," ","[","n","a","t","i","v","e"," ","c","o","d","e","]"," ","}">>
  ELSE <<"f","u","n","c","t","i","o","n"," ">> \o name \o <<"(",")"," ","{"," ","[","n","a","t","i","v","e"," ","c","o","d","e","]"," ","}">>

\* values[name] = v on a plain object: an own property, except for the name
\* __proto__, whose assignment goes to the setter of Object.prototype, and
\* that setter ignores a string
AssignProperty(vals, name, v) ==
  IF name = W_proto THEN vals ELSE (name :> v) @@ vals

\* values[name] ?? '': the property lookup goes through the prototype chain
\* of the values object
ValueOf(vals, name) ==
  IF name \in DOMAIN vals THEN vals[name]
  ELSE IF name \in ObjectPrototypeNames THEN InheritedText(name)
  ELSE <<>>

RECURSIVE ApplyFrom(_, _, _, _)
\* the for loop of applyPathParams at the k-th extracted name
ApplyFrom(res, ns, k, vals) ==
  IF k > Len(ns) THEN res
  ELSE ApplyFrom(ReplaceAll(res, 0, RegexLiteral(<<":">> \o escapeRegex(ns[k])),
                            encodeURIComponent(ValueOf(vals, ns[k]))),
                 ns, k + 1, vals)

applyPathParams(p, vals) == ApplyFrom(p, extractPathParamNames(p), 1, vals)

(***************************************************************************)
(* The texts of the model.                                                 *)
(***************************************************************************)
Lit(q, v)      == [e |-> "lit", q |-> q, v |-> v]
Id(name)       == [e |-> "id", name |-> name]
Bin(l, r)      == [e |-> "bin", l |-> l, r |-> r]
Tpl(head, sp)  == [e |-> "tpl", head |-> head, spans |-> sp]
CallE(fn)      == [e |-> "call", fn |-> fn]
Mem(obj, prop) == [e |-> "mem", obj |-> obj, prop |-> prop]

CallItem(lead, recv, m, args) ==
  [k |-> "call", lead |-> lead, recv |-> recv, method |-> m, args |-> args]
\* a call with white space or a comment between ( and the first argument
GapItem(call, gap)    == [gap |-> gap] @@ call
ConstItem(name, init) == [k |-> "const", name |-> name, init |-> init]
LetItem(name, init)   == [k |-> "let", name |-> name, init |-> init]
NestedItem(decl)      == [k |-> "nested", decl |-> decl]
ChainItem(inner, m, args) ==
  [k |-> "chain", lead |-> inner.lead, inner |-> inner, method |-> m, args |-> args]
LineComment(inner)    == [k |-> "line", inner |-> inner]
BlockComment(inner)   == [k |-> "block", inner |-> inner]

W_app    == <<"a","p","p">>
W_router == <<"r","o","u","t","e","r">>
W_API    == <<"A","P","I">>
W_Y      == <<"Y">>
W_f      == <<"f">>
W_h      == Id(<<"h">>)

\* a route call with a handler argument
Route(lead, recv, m, pathExpr) == CallItem(lead, recv, m, <<pathExpr, W_h>>)

Indent == <<" ", " ">>

\* app.get('/p', h)
I_lit      == Route(<<>>, W_app, W_get, Lit("'", <<"/","p">>))
\* (indented) router.post("/q", h)
I_litDq    == Route(Indent, W_router, W_post, Lit("\"", <<"/","q">>))
\* app.get(API, h)
I_id       == Route(<<>>, W_app, W_get, Id(W_API))
\* app.put(API, h)
I_idPut    == Route(<<>>, W_app, W_put, Id(W_API))
\* app.get('/v' + API, h)
I_bin      == Route(<<>>, W_app, W_get, Bin(Lit("'", <<"/","v">>), Id(W_API)))
\* app.get(API + '/u' + "/w", h)
I_bin3     == Route(<<>>, W_app, W_get,
                    Bin(Bin(Id(W_API), Lit("'", <<"/","u">>)), Lit("\"", <<"/","w">>)))
\* app.get('/v' + f(), h)
I_binCall  == Route(<<>>, W_app, W_get, Bin(Lit("'", <<"/","v">>), CallE(W_f)))
\* app.get(f() + '/v', h)
I_callBin  == Route(<<>>, W_app, W_get, Bin(CallE(W_f), Lit("'", <<"/","v">>)))
\* app.get(<template> /t/${API}/u, h)
I_tpl      == Route(<<>>, W_app, W_get,
                    Tpl(<<"/","t","/">>, <<[x |-> Id(W_API), lit |-> <<"/","u">>]>>))
\* app.get(<template> /t/${f()}${Y}, h)
I_tplCall  == Route(<<>>, W_app, W_get,
                    Tpl(<<"/","t","/">>, <<[x |-> CallE(W_f), lit |-> <<>>],
                                           [x |-> Id(W_Y), lit |-> <<>>]>>))
\* app.get(<template> /n, h), a template without substitution
I_noSub    == Route(<<>>, W_app, W_get, Lit(BackTick, <<"/","n">>))
\* app.get(f(), h)
I_call     == Route(<<>>, W_app, W_get, CallE(W_f))
\* app.get(a.b, h)
I_mem      == Route(<<>>, W_app, W_get, Mem(<<"a">>, <<"b">>))
\* app.get()
I_noArg    == CallItem(<<>>, W_app, W_get, <<>>)
\* app.get(Y, h), Y declared nowhere
I_unknown  == Route(<<>>, W_app, W_get, Id(W_Y))
\* app.get('', h)
I_empty    == Route(<<>>, W_app, W_get, Lit("'", <<>>))
\* const API = '/api'
I_const    == ConstItem(W_API, Lit("'", <<"/","a","p","i">>))
\* const API = ''
I_constE   == ConstItem(W_API, Lit("'", <<>>))
\* // app.get('/c', h)
I_lineC    == LineComment(Route(<<>>, W_app, W_get, Lit("'", <<"/","c">>)))
\* /* app.post('/d', h) */
I_blockC   == BlockComment(Route(<<>>, W_app, W_post, Lit("'", <<"/","d">>)))

\* literal routes, live and commented out, beside calls that need the resolver
PoolComments == {I_lit, I_litDq, I_noSub, I_id, I_const, I_call, I_binCall,
                 I_lineC, I_blockC}

\* the path expressions the resolver evaluates: constants, concatenations,
\* templates
PoolResolve == {I_lit, I_id, I_idPut, I_bin, I_bin3, I_binCall, I_callBin,
                I_tpl, I_tplCall, I_const, I_constE}

\* calls whose first argument has no value, beside calls that have one
PoolSkip == {I_lit, I_id, I_call, I_mem, I_noArg, I_unknown, I_empty, I_binCall,
             I_const}

\* the most statements of a text
MaxItems == 3

Programs(pool) == UNION {[1..n -> pool] : n \in 0..MaxItems}

Opts == {"true", "false", "omitted"}

(***************************************************************************)
(* The state machine: a text and its options are given, then                *)
(* parseRoutesFromText runs on them.                                        *)
(***************************************************************************)
\* what the variables of the other functions hold while a specification
\* does not use them
RouteVarsIdle ==
  /\ prog = <<>> /\ text = <<>> /\ opts = "omitted" /\ tsFails = FALSE
  /\ routes = <<>> /\ raised = FALSE

JSDocVarsIdle == reLastIndex = 0 /\ reAtCall = 0 /\ examples = <<>>

ParamVarsIdle == path = <<>> /\ values = <<>> /\ names = <<>> /\ resolved = <<>>

RequestVarsIdle == params = <<>> /\ argv = <<>> /\ run = <<>>

LexerVarsIdle == lexer = <<>>

InferenceVarsIdle == lookup = <<>>

CommandVarsIdle == watch = <<>> /\ command = <<>>

InitWith(pool, os, fs) ==
  /\ op = "none"
  /\ prog \in Programs(pool)
  /\ text = SourceText(prog)
  /\ opts \in os
  /\ tsFails \in fs
  /\ routes = <<>>
  /\ raised = FALSE
  /\ JSDocVarsIdle
  /\ ParamVarsIdle
  /\ RequestVarsIdle
  /\ LexerVarsIdle
  /\ InferenceVarsIdle
  /\ CommandVarsIdle

\* texts with comments, every option; the TypeScript analysis works
Init == InitWith(PoolComments, Opts, {FALSE})

\* the same texts; the TypeScript analysis may raise
InitFallback == InitWith(PoolComments, Opts, BOOLEAN)

\* texts with dynamic path expressions, default options
InitResolve == InitWith(PoolResolve, {"omitted"}, {FALSE})

\* texts with unresolvable first arguments, default options
InitSkip == InitWith(PoolSkip, {"omitted"}, {FALSE})

\* parseRoutesFromText(text, opts) of the syntax-tree module
CallParseRoutes ==
  /\ op = "none"
  /\ op' = "parseRoutesFromText"
  /\ routes' = parseRoutesFromText(prog, text, opts, tsFails).routes
  /\ raised' = parseRoutesFromText(prog, text, opts, tsFails).raised
  /\ UNCHANGED <<params, argv, run, lexer, lookup, watch, command>>
  /\ UNCHANGED <<prog, text, opts, tsFails, reLastIndex, reAtCall, examples,
                 path, values, names, resolved>>

Next == CallParseRoutes

Spec == Init /\ [][Next]_vars

SpecFallback == InitFallback /\ [][Next]_vars

SpecResolve == InitResolve /\ [][Next]_vars

SpecSkip == InitSkip /\ [][Next]_vars

(***************************************************************************)
(* Sequences of calls into routeParser.ts, whose two exported functions    *)
(* use one ROUTE_CALL_RE.                                                  *)
(***************************************************************************)
T_jsdocPost == <<"/","*","*","\n"," ","*"," ","@","e","x","a","m","p","l","e","\n"," ","*"," ","P","O","S","T"," ","{"," ","\"","a","\"",":"," ","1"," ","}","\n"," ","*","/">>
T_jsdocGet  == <<"/","*","*","\n"," ","*"," ","@","e","x","a","m","p","l","e","\n"," ","*"," ","G","E","T"," ","{"," ","\"","q","\"",":"," ","2"," ","}","\n"," ","*","/">>
T_jsdocBare == <<"/","*","*"," ","l","i","s","t"," ","*","/">>
T_post      == <<"a","p","p",".","p","o","s","t","(","'","/","u","'",","," ","h",")">>
T_getPost   == <<"a","p","p",".","g","e","t","(","'","/","p","'",","," ","h",")","\n","a","p","p",".","p","o","s","t","(","'","/","u","'",","," ","h",")">>
T_commented == <<"/","/"," ","a","p","p",".","p","o","s","t","(","'","/","c","'",","," ","h",")","\n","r","o","u","t","e","r",".","p","o","s","t","(","\"","/","u","\"",","," ","h",")">>

\* a JSDoc block or nothing, then route calls or nothing
CallTexts ==
  {Join(SelectSeq(<<head, tail>>, LAMBDA w : Len(w) > 0), <<"\n">>) :
     head \in {<<>>, T_jsdocPost, T_jsdocGet, T_jsdocBare},
     tail \in {<<>>, T_post, T_getPost, T_commented}}

InitCalls ==
  /\ op = "none"
  /\ RouteVarsIdle
  /\ JSDocVarsIdle
  /\ ParamVarsIdle
  /\ RequestVarsIdle
  /\ LexerVarsIdle
  /\ InferenceVarsIdle
  /\ CommandVarsIdle

\* parseRoutesFromText(t, o) of routeParser.ts
CallParseRoutesRegexOnly(t, o) ==
  /\ op' = "parseRoutesFromText"
  /\ text' = t
  /\ opts' = o
  /\ reAtCall' = reLastIndex
  /\ \E r \in {parseRoutesRegexOnly(t, o, reLastIndex)} :
       routes' = r.routes /\ reLastIndex' = r.lastIndex
  /\ examples' = <<>>
  /\ UNCHANGED <<params, argv, run, lexer, lookup, watch, command>>
  /\ UNCHANGED <<prog, tsFails, raised, path, values, names, resolved>>

\* parseJSDocExamplesFromText(t)
CallParseJSDocExamples(t) ==
  /\ op' = "parseJSDocExamplesFromText"
  /\ text' = t
  /\ opts' = "omitted"
  /\ reAtCall' = reLastIndex
  /\ \E r \in {parseJSDocExamplesFromText(t, reLastIndex)} :
       examples' = r.examples /\ reLastIndex' = r.lastIndex
  /\ routes' = <<>>
  /\ UNCHANGED <<params, argv, run, lexer, lookup, watch, command>>
  /\ UNCHANGED <<prog, tsFails, raised, path, values, names, resolved>>

NextCalls ==
  \/ \E t \in CallTexts, o \in Opts : CallParseRoutesRegexOnly(t, o)
  \/ \E t \in CallTexts : CallParseJSDocExamples(t)

SpecCalls == InitCalls /\ [][NextCalls]_vars

(***************************************************************************)
(* Calls of the path parameter functions.                                  *)
(***************************************************************************)
PathPieces == {<<"/">>, <<":">>, <<"a">>, <<"b">>, <<"1">>, <<":", "a">>,
               <<":", "c","o","n","s","t","r","u","c","t","o","r">>}

MaxPieces == 4

Paths == {Concat(ps) : ps \in UNION {[1..n -> PathPieces] : n \in 0..MaxPieces}}

W_a  == <<"a">>
W_ab == <<"a", "b">>

\* the values a caller supplies: for any of the names a and ab, a plain value
\* or one with characters that percent-encoding changes
ValueMaps ==
  UNION {[ks -> {<<"x">>, <<":", "b", " ">>}] : ks \in SUBSET {W_a, W_ab}}

InitParams ==
  /\ op = "none"
  /\ path \in Paths
  /\ values = <<>> /\ names = <<>> /\ resolved = <<>>
  /\ RouteVarsIdle
  /\ JSDocVarsIdle
  /\ RequestVarsIdle
  /\ LexerVarsIdle
  /\ InferenceVarsIdle
  /\ CommandVarsIdle

\* extractPathParamNames(path)
CallExtractPathParamNames ==
  /\ op = "none"
  /\ op' = "extractPathParamNames"
  /\ names' = extractPathParamNames(path)
  /\ UNCHANGED <<params, argv, run, lexer, lookup, watch, command>>
  /\ UNCHANGED <<prog, text, opts, tsFails, routes, raised, reLastIndex, reAtCall,
                 examples, path, values, resolved>>

\* applyPathParams(path, v)
CallApplyPathParams(v) ==
  /\ op = "none"
  /\ op' = "applyPathParams"
  /\ values' = v
  /\ resolved' = applyPathParams(path, v)
  /\ UNCHANGED <<params, argv, run, lexer, lookup, watch, command>>
  /\ UNCHANGED <<prog, text, opts, tsFails, routes, raised, reLastIndex, reAtCall,
                 examples, path, names>>

NextParams ==
  \/ CallExtractPathParamNames
  \/ \E v \in ValueMaps : CallApplyPathParams(v)

SpecParams == InitParams /\ [][NextParams]_vars

(***************************************************************************)
(* What the claims speak of, read off the statements of the text.          *)
(***************************************************************************)
\* the offset at which statement k begins: the length of the text before it
StmtOffset(p, k) ==
  IF k = 1 THEN 0 ELSE Len(SourceText(SubSeq(p, 1, k - 1))) + 1

\* the route calls of the text that lie outside comments
LiveCalls(p) == {k \in 1..Len(p) : p[k].k = "call"}

\* the route calls of the text that lie inside a comment
CommentedCalls(p) == {k \in 1..Len(p) : p[k].k \in {"line", "block"}}

\* the call of statement k, also when it is commented out
CallOf(p, k) == IF p[k].k = "call" THEN p[k] ELSE p[k].inner

\* the offset of the first character of the receiver of the call of statement k
RecvOffset(p, k) ==
  StmtOffset(p, k) + (IF p[k].k = "call" THEN 0 ELSE 3) + Len(CallOf(p, k).lead)

\* recv.m('/p', ...): a lowercase HTTP method and a plain, non-empty literal
IsPlainRoute(c) ==
  /\ c.method \in {W_get, W_post, W_put, W_delete, W_patch, W_options, W_head}
  /\ Len(c.args) >= 1
  /\ c.args[1].e = "lit"
  /\ c.args[1].v # <<>>

\* the text written at the offset at is w
TextAt(t, at, w) == Slice(t, at, at + Len(w)) = w

Parsed == op = "parseRoutesFromText"

(***************************************************************************)
(* C1.  A text whose only route call outside comments is recv.m('/p', ...) *)
(* yields exactly one ParsedRoute, with method m, path /p and              *)
(* callStartIndex the offset of the first character of recv (the text at   *)
(* that offset reads recv.m), whichever strategy produced it.  Commented   *)
(* calls may stand beside it unless excludeComments is false.              *)
(***************************************************************************)
C1_Case ==
  /\ Parsed
  /\ Cardinality(LiveCalls(prog)) = 1
  /\ \A k \in LiveCalls(prog) : IsPlainRoute(prog[k])
  /\ (opts # "false" \/ CommentedCalls(prog) = {})

C1_SingleRouteAtReceiver ==
  C1_Case =>
    \A k \in LiveCalls(prog) :
      /\ ~raised
      /\ routes = <<ParsedRoute(prog[k].method, prog[k].args[1].v, RecvOffset(prog, k))>>
      /\ TextAt(text, routes[1].callStartIndex,
                prog[k].recv \o <<".">> \o prog[k].method)

\* the regex strategy answers for an indented call on a later line
C1_Witness ==
  /\ C1_Case
  /\ tsFails
  /\ \E k \in LiveCalls(prog) : k > 1 /\ prog[k].lead # <<>>
  /\ Len(routes) = 1

(***************************************************************************)
(* C2.  A route call inside a line or block comment is absent from the     *)
(* result when excludeComments is true or omitted and present when it is   *)
(* false; a route call outside comments is emitted in both modes.          *)
(***************************************************************************)
EmittedAt(at) == \E j \in 1..Len(routes) : routes[j].callStartIndex = at

C2_CommentedCallsFollowOption ==
  Parsed =>
    /\ \A k \in CommentedCalls(prog) :
         IsPlainRoute(CallOf(prog, k)) =>
           (EmittedAt(RecvOffset(prog, k)) <=> opts = "false")
    /\ \A k \in LiveCalls(prog) :
         IsPlainRoute(prog[k]) => EmittedAt(RecvOffset(prog, k))

(***************************************************************************)
(* C3.  parseRoutesFromText returns the result of the syntax-tree strategy *)
(* when that strategy completes with at least one route, and otherwise     *)
(* (it raised, or found no route) the result of the regex strategy for the *)
(* same text and options; no exception reaches the caller.                 *)
(***************************************************************************)
C3_FallbackPolicy ==
  Parsed =>
    LET ast == parseRoutesWithAST(prog, text, opts, tsFails)
    IN /\ ~raised
       /\ (ast.st = "ok" /\ Len(ast.routes) > 0) => routes = ast.routes
       /\ (ast.st = "throw" \/ Len(ast.routes) = 0) =>
            routes = parseRoutesWithRegex(text, opts)

\* the syntax-tree strategy raised and the regex strategy supplied a route
C3_Witness ==
  /\ Parsed
  /\ tsFails
  /\ ~raised
  /\ Len(routes) > 0

(***************************************************************************)
(* C4.  In any sequence of calls of parseRoutesFromText and                *)
(* parseJSDocExamplesFromText on arbitrary texts, each call returns what   *)
(* it returns on the same arguments when ROUTE_CALL_RE.lastIndex is 0, as  *)
(* after load: the lastIndex an earlier call left never changes a result,  *)
(* so the same arguments always give the same list.                        *)
(***************************************************************************)
C4_ResultsIgnoreLastIndex ==
  /\ op = "parseRoutesFromText" =>
       routes = parseRoutesRegexOnly(text, opts, 0).routes
  /\ op = "parseJSDocExamplesFromText" =>
       examples = parseJSDocExamplesFromText(text, 0).examples

\* a call that found lastIndex beyond its first route call and returned both
\* of the text's routes
C4_Witness ==
  /\ op = "parseRoutesFromText"
  /\ reAtCall > 0
  /\ text = T_getPost
  /\ Len(routes) = 2

(***************************************************************************)
(* The value a path expression denotes, read off the text: a literal       *)
(* denotes its text, an identifier the value of its one declaration, a     *)
(* sum the concatenation of what its operands denote; anything else, and   *)
(* an identifier declared never or more than once, denotes nothing.        *)
(***************************************************************************)
DeclsOf(p, name) == {k \in 1..Len(p) : p[k].k = "const" /\ p[k].name = name}

RECURSIVE Denotes(_, _, _)
Denotes(x, p, depth) ==
  IF x.e = "lit" THEN [has |-> TRUE, s |-> x.v]
  ELSE IF x.e = "id" THEN
    IF depth > 0 /\ Cardinality(DeclsOf(p, x.name)) = 1
      THEN Denotes(p[CHOOSE k \in DeclsOf(p, x.name) : TRUE].init, p, depth - 1)
    ELSE [has |-> FALSE, s |-> <<>>]
  ELSE IF x.e = "bin" THEN
    LET l == Denotes(x.l, p, depth)
        r == Denotes(x.r, p, depth)
    IN IF l.has /\ r.has THEN [has |-> TRUE, s |-> l.s \o r.s]
       ELSE [has |-> FALSE, s |-> <<>>]
  ELSE [has |-> FALSE, s |-> <<>>]

\* the statements of the text that are route calls with a first argument of kind e
CallsWith(p, e) ==
  {k \in LiveCalls(p) : Len(p[k].args) >= 1 /\ p[k].args[1].e = e}

\* the positions in the result of the routes that start at offset at
RoutesAt(at) == {j \in 1..Len(routes) : routes[j].callStartIndex = at}

\* the call of statement k is emitted once, with its method and the path s
EmittedOnceWith(p, k, s) ==
  /\ Cardinality(RoutesAt(RecvOffset(p, k))) = 1
  /\ \A j \in RoutesAt(RecvOffset(p, k)) :
       routes[j].path = s /\ routes[j].method = p[k].method

\* the routes are listed in source order
InSourceOrder ==
  \A i, j \in 1..Len(routes) :
    i < j => routes[i].callStartIndex < routes[j].callStartIndex

\* the first argument of call k is an identifier with exactly one declaration,
\* whose initializer is a string literal
RefersToLiteralConst(p, k) ==
  /\ k \in CallsWith(p, "id")
  /\ Cardinality(DeclsOf(p, p[k].args[1].name)) = 1
  /\ \A d \in DeclsOf(p, p[k].args[1].name) : p[d].init.e = "lit"

(***************************************************************************)
(* C5 as stated.  A route call whose first argument is an identifier X, in *)
(* a text with exactly one declaration const X = <string literal s>, is    *)
(* emitted with path s: every such call, once each, in source order.       *)
(***************************************************************************)
C5_AnyLiteralConstant ==
  Parsed =>
    /\ InSourceOrder
    /\ \A k \in LiveCalls(prog) :
         RefersToLiteralConst(prog, k) =>
           EmittedOnceWith(prog, k, Denotes(prog[k].args[1], prog, 1).s)

(***************************************************************************)
(* C5 as amended.  The same for a non-empty literal s: a call whose        *)
(* constant is the empty string is dropped.                                *)
(***************************************************************************)
C5_NonEmptyLiteralConstant ==
  Parsed =>
    /\ InSourceOrder
    /\ \A k \in LiveCalls(prog) :
         RefersToLiteralConst(prog, k) =>
           LET s == Denotes(prog[k].args[1], prog, 1).s
           IN IF s # <<>> THEN EmittedOnceWith(prog, k, s)
              ELSE RoutesAt(RecvOffset(prog, k)) = {}

\* two calls with different methods refer to the constant declared after the
\* first of them, and both are emitted
C5_Witness ==
  /\ Parsed
  /\ Len(prog) = 3
  /\ prog[1] = I_id /\ prog[2] = I_const /\ prog[3] = I_idPut
  /\ Len(routes) = 2
  /\ routes[1].path = routes[2].path

(***************************************************************************)
(* C6.  A binary + path expression resolves to what its left operand       *)
(* resolves to followed by what its right operand resolves to (literals,   *)
(* constants, nested sums); when an operand is unresolvable the expression *)
(* resolves to null and the call is not emitted.  (Stated for texts that   *)
(* declare each constant at most once.)                                    *)
(***************************************************************************)
C6_Concatenation ==
  (Parsed /\ Cardinality(DeclsOf(prog, W_API)) <= 1) =>
    \A k \in CallsWith(prog, "bin") :
      LET d == Denotes(prog[k].args[1], prog, 1)
          r == resolveRoutePathExpression(prog[k].args[1], prog, {})
      IN IF d.has
           THEN r = Val(d.s) /\ (d.s # <<>> => EmittedOnceWith(prog, k, d.s))
         ELSE r = Null /\ RoutesAt(RecvOffset(prog, k)) = {}

(***************************************************************************)
(* C7.  A template literal with interpolations resolves to its head, then  *)
(* for each interpolation in order ${name} for an identifier and ${...}    *)
(* for any other expression, followed by the span's literal text; an       *)
(* identifier is not replaced by the value of a const of that name.        *)
(***************************************************************************)
Placeholder(x) ==
  IF x.e = "id" THEN <<"$", "{">> \o x.name \o <<"}">>
  ELSE <<"$", "{", ".", ".", ".", "}">>

RECURSIVE TemplatePattern(_, _)
TemplatePattern(acc, spans) ==
  IF spans = <<>> THEN acc
  ELSE TemplatePattern(acc \o Placeholder(spans[1].x) \o spans[1].lit, Tail(spans))

C7_TemplatePlaceholders ==
  Parsed =>
    \A k \in CallsWith(prog, "tpl") :
      EmittedOnceWith(prog, k,
                      TemplatePattern(prog[k].args[1].head, prog[k].args[1].spans))

\* a template that interpolates API is emitted beside a declaration of API
C7_Witness ==
  /\ Parsed
  /\ \E k \in CallsWith(prog, "tpl") :
       /\ prog[k] = I_tpl
       /\ DeclsOf(prog, W_API) # {}
       /\ \E j \in RoutesAt(RecvOffset(prog, k)) :
            routes[j].path = <<"/","t","/","$","{","A","P","I","}","/","u">>

(***************************************************************************)
(* C8.  Every emitted ParsedRoute has a non-empty path; a call whose first *)
(* argument is a function call, a member access, an identifier without a   *)
(* declaration, or missing, produces no route and no error, and the plain  *)
(* route calls of the same text are still emitted.                         *)
(***************************************************************************)
HasNoValue(p, k) ==
  /\ p[k].k = "call"
  /\ \/ Len(p[k].args) = 0
     \/ p[k].args[1].e \in {"call", "mem"}
     \/ p[k].args[1].e = "id" /\ DeclsOf(p, p[k].args[1].name) = {}

C8_UnresolvableSkipped ==
  Parsed =>
    /\ ~raised
    /\ \A j \in 1..Len(routes) : routes[j].path # <<>>
    /\ \A k \in LiveCalls(prog) :
         /\ HasNoValue(prog, k) => RoutesAt(RecvOffset(prog, k)) = {}
         /\ IsPlainRoute(prog[k]) => EmittedOnceWith(prog, k, prog[k].args[1].v)

\* calls without a value stand before and after a plain call, which is emitted
C8_Witness ==
  /\ Parsed
  /\ Len(prog) = 3
  /\ HasNoValue(prog, 1) /\ prog[2] = I_lit /\ prog[3] = I_empty
  /\ Len(routes) = 1

(***************************************************************************)
(* The tokens of a path, read off its characters: a colon, a letter or     *)
(* underscore, and the letters, digits and underscores that follow, up to  *)
(* the first character that is none of these.                              *)
(***************************************************************************)
TokenSpans(p) ==
  {sp \in (0..Len(p)) \X (0..Len(p)) :
     /\ CharAt(p, sp[1]) = ":"
     /\ sp[2] > sp[1] + 1
     /\ CharAt(p, sp[1] + 1) \in NameStart
     /\ \A j \in (sp[1] + 1)..(sp[2] - 1) : CharAt(p, j) \in WordChar
     /\ CharAt(p, sp[2]) \notin WordChar}

TokenName(p, sp) == Slice(p, sp[1] + 1, sp[2])

\* the offset of the first token with name n
FirstTokenOf(p, n) ==
  LET at == {sp[1] : sp \in {x \in TokenSpans(p) : TokenName(p, x) = n}}
  IN CHOOSE i \in at : \A j \in at : i <= j

(***************************************************************************)
(* C9.  extractPathParamNames(path) returns the names of all the tokens of *)
(* the path, each once, ordered by the offset of the first token with that *)
(* name; a path without tokens yields the empty list.                      *)
(***************************************************************************)
C9_NamesOnceInFirstOccurrenceOrder ==
  op = "extractPathParamNames" =>
    /\ {names[k] : k \in 1..Len(names)}
         = {TokenName(path, sp) : sp \in TokenSpans(path)}
    /\ \A j, k \in 1..Len(names) :
         j < k => /\ names[j] # names[k]
                  /\ FirstTokenOf(path, names[j]) < FirstTokenOf(path, names[k])

\* :a:b:a gives a, b
C9_Witness ==
  /\ op = "extractPathParamNames"
  /\ path = <<":", "a", ":", "b", ":", "a">>
  /\ names = <<W_a, <<"b">>>>

RECURSIVE Substituted(_, _, _)
\* the path from offset i on with every token replaced by the percent-encoded
\* value of its name, the empty string when none is supplied, and every other
\* character kept
Substituted(p, i, vals) ==
  IF i >= Len(p) THEN <<>>
  ELSE LET here == {sp \in TokenSpans(p) : sp[1] = i}
       IN IF here = {} THEN <<CharAt(p, i)>> \o Substituted(p, i + 1, vals)
          ELSE LET sp == CHOOSE x \in here : TRUE
               IN encodeURIComponent(SuppliedValue(vals, TokenName(p, sp)))
                    \o Substituted(p, sp[2], vals)

(***************************************************************************)
(* C10.  applyPathParams(path, values) returns the path with every token   *)
(* replaced by the percent-encoded value supplied for its name, by the     *)
(* empty string when no value is supplied for it, and with every character *)
(* outside the tokens unchanged.                                           *)
(***************************************************************************)
C10_TokensReplacedByTheirValues ==
  op = "applyPathParams" => resolved = Substituted(path, 0, values)

(***************************************************************************)
(* Texts with one documentation block: an optional line before it, the     *)
(* block's lines behind a decoration, and what follows the block.  A line  *)
(* records what it is by construction: an @example tag, a METHOD {json}    *)
(* line with the braces it leaves open, or a line of a JSON body with the  *)
(* braces it closes.                                                       *)
(***************************************************************************)
DocLine(w, kind, method, body, net) ==
  [w |-> w, kind |-> kind, method |-> method, body |-> body, net |-> net]

L_example == DocLine(W_atExample, "example", <<>>, <<>>, 0)
L_post    == DocLine(<<"P","O","S","T"," ","{"," ","\"","a","\"",":"," ","1"," ","}">>, "method", toUpperCase(W_post),
                     <<"{"," ","\"","a","\"",":"," ","1"," ","}">>, 0)
L_get     == DocLine(<<"G","E","T"," ","{","}">>, "method", toUpperCase(W_get), <<"{","}">>, 0)
L_open    == DocLine(<<"P","O","S","T"," ","{">>, "method", toUpperCase(W_post), <<"{">>, 1)
L_field   == DocLine(<<" "," ","\"","n","\"",":"," ","1">>, "body", <<>>, <<" "," ","\"","n","\"",":"," ","1">>, 0)
L_close   == DocLine(<<"}">>, "body", <<>>, <<"}">>, -1)

DocLinePool == {L_example, L_post, L_get, L_open, L_field, L_close}

MaxDocLines == 4

\* what follows the block, and the first route call in it
DocTail(w, found, method, rpath) ==
  [w |-> w, found |-> found, method |-> method, path |-> rpath]

Tail_none == DocTail(<<>>, FALSE, <<>>, <<>>)
Tail_post == DocTail(<<"\n">> \o T_post, TRUE, W_post, <<"/", "u">>)
Tail_commentedGet ==
  DocTail(<<"\n","/","/"," ","a","p","p",".","g","e","t","(","'","/","c","'",","," ","h",")","\n","a","p","p",".","p","o","s","t","(","'","/","u","'",","," ","h",")">>, TRUE, W_get, <<"/", "c">>)

DocTails == {Tail_none, Tail_post, Tail_commentedGet}

\* the text before the block and the decoration of the block's lines
DocLayouts == {[lead |-> <<>>, deco |-> <<" ", "*", " ">>],
               [lead |-> <<"c","o","n","s","t"," ","x"," ","="," ","1","\n">>,
                deco |-> <<" ", " ", " ", " ", "*", " ">>]}

Docs ==
  {[layout |-> y, lines |-> ls, tail |-> tl] :
     y \in DocLayouts,
     ls \in UNION {[1..n -> DocLinePool] : n \in 0..MaxDocLines},
     tl \in DocTails}

W_docOpen  == <<"/", "*", "*">>
W_docClose == <<" ", "*", "/">>

\* the text of a document
DocText(d) ==
  d.layout.lead
    \o Join(<<W_docOpen>>
              \o [k \in 1..Len(d.lines) |-> d.layout.deco \o d.lines[k].w]
              \o <<W_docClose>>,
            <<"\n">>)
    \o d.tail.w

InitDocs ==
  /\ op = "none"
  /\ prog \in Docs
  /\ text = DocText(prog)
  /\ opts = "omitted" /\ tsFails = FALSE /\ routes = <<>> /\ raised = FALSE
  /\ JSDocVarsIdle
  /\ ParamVarsIdle
  /\ RequestVarsIdle
  /\ LexerVarsIdle
  /\ InferenceVarsIdle
  /\ CommandVarsIdle

\* parseJSDocExamplesFromText(text)
CallParseJSDocExamplesOfText ==
  /\ op = "none"
  /\ op' = "parseJSDocExamplesFromText"
  /\ reAtCall' = reLastIndex
  /\ \E r \in {parseJSDocExamplesFromText(text, reLastIndex)} :
       examples' = r.examples /\ reLastIndex' = r.lastIndex
  /\ UNCHANGED <<params, argv, run, lexer, lookup, watch, command>>
  /\ UNCHANGED <<prog, text, opts, tsFails, routes, raised, path, values, names,
                 resolved>>

NextDocs == CallParseJSDocExamplesOfText

SpecDocs == InitDocs /\ [][NextDocs]_vars

(***************************************************************************)
(* The examples of a block, read off its lines: in an @example section a   *)
(* METHOD {json} line is an example when its braces balance, on the line   *)
(* itself or on a later line reached without meeting another @ tag.        *)
(***************************************************************************)
RECURSIVE NetOf(_, _, _)
\* the braces left open by lines i..j
NetOf(ls, i, j) == IF i > j THEN 0 ELSE ls[i].net + NetOf(ls, i + 1, j)

\* the line on which the body begun on line i closes, 0 when there is none
ClosingLine(ls, i) ==
  LET ends == {j \in i..Len(ls) :
                 /\ NetOf(ls, i, j) = 0
                 /\ \A k \in i..(j - 1) : NetOf(ls, i, k) > 0
                 /\ \A k \in (i + 1)..(j - 1) : ls[k].kind # "example"}
  IN IF ends = {} THEN 0 ELSE CHOOSE j \in ends : TRUE

\* the body begun on line i and closed on line j: the method line from its
\* first brace, then the continuation lines without decoration
BodyText(ls, i, j) ==
  Join(<<ls[i].body>> \o [k \in 1..(j - i) |-> ls[i + k].w], <<"\n">>)

RECURSIVE DocExamples(_, _, _)
\* the examples of the lines from line i on: method, body and line number
DocExamples(ls, i, inExample) ==
  IF i > Len(ls) THEN <<>>
  ELSE IF ls[i].kind = "example" THEN DocExamples(ls, i + 1, TRUE)
  ELSE IF inExample /\ ls[i].kind = "method" /\ ClosingLine(ls, i) > 0
    THEN <<[method |-> ls[i].method, body |-> BodyText(ls, i, ClosingLine(ls, i)),
            line |-> i]>>
           \o DocExamples(ls, ClosingLine(ls, i) + 1, inExample)
  ELSE DocExamples(ls, i + 1, inExample)

\* the examples of the block whose method is that of the first route call
\* after the block
PairedExamples(d) ==
  SelectSeq(DocExamples(d.lines, 1, FALSE),
            LAMBDA e : d.tail.found /\ toLowerCase(e.method) = d.tail.method)

ParsedDocs == op = "parseJSDocExamplesFromText"

(***************************************************************************)
(* C11.  The examples parseJSDocExamplesFromText emits for a block are, in *)
(* order, exactly the block's examples whose method is the method of the   *)
(* first route call after the block's end, commented-out calls included;   *)
(* each carries that call's path and method, its method equals its         *)
(* routeMethod in lower case, and no example is emitted when no route call *)
(* follows.                                                                *)
(***************************************************************************)
C11_ExamplesPairedWithFollowingRoute ==
  ParsedDocs =>
    /\ Len(examples) = Len(PairedExamples(prog))
    /\ \A k \in 1..Len(examples) :
         /\ examples[k].method = toLowerCase(PairedExamples(prog)[k].method)
         /\ examples[k].routeMethod = prog.tail.method
         /\ examples[k].routePath = prog.tail.path
         /\ examples[k].method = examples[k].routeMethod
         /\ examples[k].method = toLowerCase(examples[k].method)

\* a block with a POST and a GET example before a commented-out get call and
\* a post call: the GET example alone is emitted, with the commented call's path
C11_Witness ==
  /\ ParsedDocs
  /\ prog.lines = <<L_example, L_post, L_get>>
  /\ prog.tail = Tail_commentedGet
  /\ Len(examples) = 1
  /\ examples[1].method = W_get
  /\ examples[1].routePath = <<"/", "c">>

RECURSIVE DocLineChars(_, _)
\* the characters of the block's lines before line i, newlines included
DocLineChars(d, i) ==
  IF i <= 1 THEN 0
  ELSE Len(d.layout.deco) + Len(d.lines[i - 1].w) + 1 + DocLineChars(d, i - 1)

\* the offset, from the block's first line on, of the content of line i
NetLineOffset(d, i) == DocLineChars(d, i) + Len(d.layout.deco)

\* the offset in the text of the content of line i of the block
ContentOffset(d, i) ==
  Len(d.layout.lead) + Len(W_docOpen) + 1 + NetLineOffset(d, i)

\* the braces of w: opening minus closing
BraceNet(w) == CountIn(w, "{", Len(w)) - CountIn(w, "}", Len(w))

(***************************************************************************)
(* C12.  The jsonBody of an emitted example is the text from the first     *)
(* opening brace of the method line through the brace that returns the     *)
(* balance to zero, continuation lines without their decoration and joined *)
(* by a newline; it starts with an opening brace, ends with a closing one  *)
(* and is balanced with no balanced proper prefix.  An example whose       *)
(* braces never balance before the block ends is not emitted.              *)
(***************************************************************************)
C12_BalancedJsonBody ==
  ParsedDocs =>
    /\ \A k \in 1..Len(examples) :
         LET b == examples[k].jsonBody
         IN /\ b = PairedExamples(prog)[k].body
            /\ Len(b) >= 2 /\ b[1] = "{" /\ b[Len(b)] = "}"
            /\ BraceNet(b) = 0
            /\ \A n \in 1..(Len(b) - 1) : BraceNet(SubSeq(b, 1, n)) > 0
    /\ \A i \in 1..Len(prog.lines) :
         (prog.lines[i].kind = "method" /\ NetOf(prog.lines, i, Len(prog.lines)) > 0
            /\ \A j \in i..Len(prog.lines) : NetOf(prog.lines, i, j) > 0)
           => \A k \in 1..Len(examples) :
                examples[k].methodStartIndex # ContentOffset(prog, i)

\* a body over three lines before a post call
C12_Witness ==
  /\ ParsedDocs
  /\ prog.lines = <<L_example, L_open, L_field, L_close>>
  /\ prog.tail = Tail_post
  /\ Len(examples) = 1
  /\ examples[1].jsonBody = <<"{", "\n">> \o L_field.w \o <<"\n", "}">>

(***************************************************************************)
(* C13.  For every emitted example the text at methodStartIndex reads the  *)
(* example's method in upper case, and the index is that of the method     *)
(* line's content: for either decoration, for a block at offset 0 or after *)
(* a first line, and for examples after an earlier example of one or more  *)
(* lines in the same block.                                                *)
(***************************************************************************)
C13_MethodStartIndexAtKeyword ==
  ParsedDocs =>
    \A k \in 1..Len(examples) :
      /\ TextAt(text, examples[k].methodStartIndex, toUpperCase(examples[k].method))
      /\ examples[k].methodStartIndex = ContentOffset(prog, PairedExamples(prog)[k].line)

\* a block after a first line, with the longer decoration, whose second
\* example follows an example of two lines
C13_Witness ==
  /\ ParsedDocs
  /\ Len(prog.layout.lead) > 0
  /\ prog.lines = <<L_example, L_open, L_close, L_post>>
  /\ prog.tail = Tail_post
  /\ Len(examples) = 2
  /\ examples[2].methodStartIndex = ContentOffset(prog, 4)


(***************************************************************************)
(* argvBuilder.ts: the argument list of the bundled hono request command.  *)
(* A RequestInvocationInput is a record; an optional field that is not     *)
(* given is absent from the record's domain.                               *)
(***************************************************************************)
W_request == <<"r","e","q","u","e","s","t">>
W_optP    == <<"-","P">>
W_optX    == <<"-","X">>
W_optD    == <<"-","d">>
W_optH    == <<"-","H">>
W_optWatch == <<"-","-","w","a","t","c","h">>

\* input.appEntryFile ? ... : ..., input.data ? ... : ... -- a string that is
\* given and not empty
Truthy(input, field) == field \in DOMAIN input /\ input[field] # <<>>

\* input.headers ?? []
HeadersOf(input) == IF "headers" \in DOMAIN input THEN input.headers ELSE <<>>

\* hs.flatMap((h) => ['-H', h])
FlatMapHeaders(hs) == Concat([k \in 1..Len(hs) |-> <<W_optH, hs[k]>>])

\* buildBundledHonoRequestArgv without the app entry file
buildBundledHonoRequestArgv_noEntryFile(p) ==
  <<p.entry, W_request>>
    \o <<W_optP, p.input.path, W_optX, toUpperCase(p.input.method)>>
    \o (IF Truthy(p.input, "data") THEN <<W_optD, p.input.data>> ELSE <<>>)
    \o FlatMapHeaders(HeadersOf(p.input))
    \o (IF p.watch THEN <<W_optWatch>> ELSE <<>>)
    \o p.extraArgs

buildBundledHonoRequestArgv(p) ==
  <<p.entry, W_request>>
    \o (IF Truthy(p.input, "appEntryFile") THEN <<p.input.appEntryFile>> ELSE <<>>)
    \o <<W_optP, p.input.path, W_optX, toUpperCase(p.input.method)>>
    \o (IF Truthy(p.input, "data") THEN <<W_optD, p.input.data>> ELSE <<>>)
    \o FlatMapHeaders(HeadersOf(p.input))
    \o (IF p.watch THEN <<W_optWatch>> ELSE <<>>)
    \o p.extraArgs

(***************************************************************************)
(* Calls of buildBundledHonoRequestArgv.                                   *)
(***************************************************************************)
W_cliEntry == <<"/","e","x","t","/","c","l","i",".","j","s">>
W_appTs    == <<"s","r","c","/","a","p","p",".","t","s">>
W_hJson    == <<"C","o","n","t","e","n","t","-","T","y","p","e",":"," ","a","p","p","l","i","c","a","t","i","o","n","/","j","s","o","n">>
W_hAuth    == <<"X","-","T","e","s","t",":"," ","1">>
W_dataJson == <<"{","\"","a","\"",":","1","}">>
W_extraFoo == <<"-","-","f","o","o">>

MaxHeaders == 2

HeaderLists == UNION {[1..n -> {W_hJson, W_hAuth}] : n \in 0..MaxHeaders}

\* an optional field: absent, or present with one of the values
Optional(field, vs) == {<<>>} \cup {[f \in {field} |-> v] : v \in vs}

InvocationInputs ==
  {base @@ e @@ d @@ h :
     base \in [method : {<<"g","e","t">>, <<"P","o","s","t">>, <<"P","U","T">>}, path : {<<"/">>, <<"/","u">>}],
     e \in Optional("appEntryFile", {<<>>, W_appTs}),
     d \in Optional("data", {<<>>, W_dataJson}),
     h \in Optional("headers", HeaderLists)}

ArgvParams ==
  [entry : {W_cliEntry}, watch : BOOLEAN, input : InvocationInputs,
   extraArgs : {<<>>, <<W_extraFoo>>, <<W_optWatch>>}]

InitArgv ==
  /\ op = "none"
  /\ params \in ArgvParams
  /\ argv = <<>> /\ run = <<>>
  /\ RouteVarsIdle
  /\ JSDocVarsIdle
  /\ ParamVarsIdle
  /\ LexerVarsIdle
  /\ InferenceVarsIdle
  /\ CommandVarsIdle

\* buildBundledHonoRequestArgv(params)
CallBuildArgv ==
  /\ op = "none"
  /\ op' = "buildBundledHonoRequestArgv"
  /\ argv' = buildBundledHonoRequestArgv(params)
  /\ UNCHANGED <<prog, text, opts, tsFails, routes, raised, reLastIndex, reAtCall,
                 examples, path, values, names, resolved, params, run, lexer, lookup, watch, command>>

NextArgv == CallBuildArgv

SpecArgv == InitArgv /\ [][NextArgv]_vars

\* the sizes of the optional parts of the list
ArgvEntryLen(p) == IF Truthy(p.input, "appEntryFile") THEN 1 ELSE 0
ArgvDataLen(p)  == IF Truthy(p.input, "data") THEN 2 ELSE 0
ArgvWatchLen(p) == IF p.watch THEN 1 ELSE 0

\* a is the list C14 describes for the parameters p
IsRequestArgv(a, p) ==
  LET nE == ArgvEntryLen(p)
      nD == ArgvDataLen(p)
      hs == HeadersOf(p.input)
      nW == ArgvWatchLen(p)
      fixed == 6 + nE + nD + 2 * Len(hs)
  IN  /\ Len(a) = fixed + nW + Len(p.extraArgs)
      /\ a[1] = p.entry
      /\ a[2] = W_request
      /\ nE = 1 => a[3] = p.input.appEntryFile
      /\ a[3 + nE] = W_optP
      /\ a[4 + nE] = p.input.path
      /\ a[5 + nE] = W_optX
      /\ \A k \in 1..Len(a[6 + nE]) : a[6 + nE][k] \notin Lower
      /\ toLowerCase(a[6 + nE]) = toLowerCase(p.input.method)
      /\ nD = 2 => a[7 + nE] = W_optD /\ a[8 + nE] = p.input.data
      /\ \A k \in 1..Len(hs) :
           /\ a[6 + nE + nD + 2 * k - 1] = W_optH
           /\ a[6 + nE + nD + 2 * k] = hs[k]
      /\ nW = 1 => a[fixed + 1] = W_optWatch
      /\ \A k \in 1..Len(p.extraArgs) : a[fixed + nW + k] = p.extraArgs[k]

\* C14: buildBundledHonoRequestArgv returns, in this order, the CLI entry,
\* "request", the app entry file exactly when a non-empty one is given,
\* "-P" and the path, "-X" and the method in upper case, "-d" and the data
\* exactly when the data is a non-empty string, one "-H" h pair per header
\* in input order, "--watch" exactly when watch is set, then the extra
\* arguments.
C14_ArgvOrder ==
  op = "buildBundledHonoRequestArgv" => IsRequestArgv(argv, params)

\* a call with an app entry file, data, two headers, watch and an extra
\* argument
C14_Witness ==
  /\ op = "buildBundledHonoRequestArgv"
  /\ Truthy(params.input, "appEntryFile")
  /\ Truthy(params.input, "data")
  /\ Len(HeadersOf(params.input)) = 2
  /\ params.watch
  /\ params.extraArgs # <<>>
  /\ params.input.method # toUpperCase(params.input.method)
  /\ Len(argv) = 15


(***************************************************************************)
(* runner.ts: resolveInvocationInput and the prompts it shows.  A value    *)
(* that may be undefined is Undefined or Some(v).  The user's answers and  *)
(* the outcome of the body-schema inference are the environment's.         *)
(***************************************************************************)
Undefined == [undefined |-> TRUE]
Some(v) == [value |-> v]
IsUndefined(x) == "undefined" \in DOMAIN x

\* ['post', 'put', 'patch', 'delete']
BodyMethods == {W_post, W_put, W_patch, W_delete}

W_last == <<"l","a","s","t">>
W_formContentType == <<"C","o","n","t","e","n","t","-","T","y","p","e",":"," ","a","p","p","l","i","c","a","t","i","o","n","/","x","-","w","w","w","-","f","o","r","m","-","u","r","l","e","n","c","o","d","e","d">>

\* historyKey(prefix, wsKey, name), for the one workspace of the model
historyKey(prefix, name) == <<prefix, name>>

\* history.set(key, v)
HistorySet(h, key, v) == (key :> v) @@ h

\* the characters URLSearchParams.toString keeps
FormUnreserved == Lower \cup Upper \cup Digit \cup {"*", "-", ".", "_"}

\* application/x-www-form-urlencoded serialisation of one string
FormEncode(w) ==
  Concat([k \in 1..Len(w) |->
            IF w[k] \in FormUnreserved THEN <<w[k]>>
            ELSE IF w[k] = " " THEN <<"+">>
            ELSE <<"%">> \o HexOf(w[k])])

\* params.toString() for the appended name/value pairs
URLSearchParamsToString(ps) ==
  Join([k \in 1..Len(ps) |-> FormEncode(ps[k][1]) \o <<"=">> \o FormEncode(ps[k][2])],
       <<"&">>)

RECURSIVE SplitOn(_, _)
\* w.split(c)
SplitOn(w, c) ==
  LET j == SkipUntil(w, 0, {c})
  IN IF j >= Len(w) THEN <<w>>
     ELSE <<Slice(w, 0, j)>> \o SplitOn(Slice(w, j + 1, Len(w)), c)

\* v.split(',').map((x) => x.trim()).filter(Boolean)
ArrayItems(v) ==
  SelectSeq([k \in 1..Len(SplitOn(v, ",")) |-> Trim(SplitOn(v, ",")[k])],
            LAMBDA x : x # <<>>)

\* what the wrapper gives its caller: a value, or an exception
InferResult(threw, value) == [threw |-> threw, value |-> value]

\* the wrapper without its try/catch
inferFormFieldsFromHonoSchema_noCatch(outcome) ==
  IF outcome.kind \in {"importThrows", "inferThrows"}
  THEN InferResult(TRUE, Undefined)
  ELSE IF outcome.kind = "undefined" THEN InferResult(FALSE, Undefined)
  ELSE InferResult(FALSE, Some(outcome.fields))

\* the wrapper inferFormFieldsFromHonoSchema of runner.ts: the import of
\* ./typeInference or the inference itself may throw; the wrapper catches
inferFormFieldsFromHonoSchema(outcome) ==
  IF outcome.kind \in {"importThrows", "inferThrows", "undefined"}
  THEN InferResult(FALSE, Undefined)
  ELSE InferResult(FALSE, Some(outcome.fields))

\* resolveInvocationInput returns v
Return(r, v) == [r EXCEPT !.pc = "done", !.result = v]

\* vscode.window.showInputBox is called for the next prompt
ShowPrompt(r, pc, prefix, name) ==
  [r EXCEPT !.pc = pc, !.prompts = Append(@, historyKey(prefix, name))]

\* resolveInvocationInput after promptPathParams returned rp, up to the next
\* await of a prompt or of the inference
AfterPathParams(r, rp) ==
  IF IsUndefined(rp) \/ rp.value = <<>> THEN Return(r, Undefined)
  ELSE IF toLowerCase(r.args.method) \notin BodyMethods
  THEN Return([r EXCEPT !.resolvedPath = rp, !.method = toLowerCase(r.args.method)],
              Some([method |-> toLowerCase(r.args.method), path |-> rp.value]))
  ELSE [r EXCEPT !.pc = "infer", !.resolvedPath = rp,
                 !.method = toLowerCase(r.args.method)]

\* promptPathParams from its start to its first prompt or its return
EnterPathParams(r, ns) ==
  IF Len(ns) = 0 THEN AfterPathParams(r, Some(r.args.path))
  ELSE ShowPrompt([r EXCEPT !.names = ns, !.k = 1], "pathParam", "pathParam", ns[1])

\* promptPathParams after the prompt for name was answered with v: a
\* cancelled prompt returns; otherwise the value is kept, history.set is
\* called, which hands the value to the memento, and the function waits for
\* it to settle
PathParamAnswered(r, name, v) ==
  IF IsUndefined(v) THEN Return(r, Undefined)
  ELSE [r EXCEPT !.pc = "pathParamStore",
                 !.values = AssignProperty(@, name, v.value),
                 !.history = HistorySet(@, historyKey("pathParam", name), v.value)]

\* promptPathParams after history.set settled: the prompt of the next name,
\* or the return of the path with the values applied
PathParamStored(r) ==
  IF r.k < Len(r.names)
  THEN ShowPrompt([r EXCEPT !.k = @ + 1], "pathParam", "pathParam", r.names[r.k + 1])
  ELSE AfterPathParams(r, Some(applyPathParams(r.args.path, r.values)))

\* memento.update rejected: the exception leaves history.set, the prompt
\* function and resolveInvocationInput, none of which catches it
HistoryRejected(r) == [r EXCEPT !.pc = "done", !.rejected = TRUE]

\* resolveInvocationInput after the wrapper returned or threw
AfterInference(r, res) ==
  IF res.threw THEN [r EXCEPT !.pc = "done", !.threw = TRUE]
  ELSE IF IsUndefined(res.value) \/ Len(res.value.value) = 0
  THEN ShowPrompt([r EXCEPT !.inferred = res.value], "rawBody", "rawBody", W_last)
  ELSE ShowPrompt([r EXCEPT !.inferred = res.value, !.k = 1], "formField", "formField",
                  res.value.value[1].name)

\* promptRawBody taking a cancelled prompt for a blank answer
RawBodyAnswered_cancelAsBlank(r, v) ==
  IF IsUndefined(v) \/ Trim(v.value) = <<>>
  THEN Return(r, Some([method |-> r.method, path |-> r.resolvedPath.value]))
  ELSE [r EXCEPT !.pc = "rawBodyStore", !.raw = v.value,
                 !.history = HistorySet(@, historyKey("rawBody", W_last), v.value)]

\* promptRawBody after its prompt was answered with v: a cancelled prompt
\* and a blank answer return, with them resolveInvocationInput; any other
\* answer is handed to history.set and the function waits for it to settle
RawBodyAnswered(r, v) ==
  IF IsUndefined(v) THEN Return(r, Undefined)
  ELSE IF Trim(v.value) = <<>>
  THEN Return(r, Some([method |-> r.method, path |-> r.resolvedPath.value]))
  ELSE [r EXCEPT !.pc = "rawBodyStore", !.raw = v.value,
                 !.history = HistorySet(@, historyKey("rawBody", W_last), v.value)]

\* promptRawBody after history.set settled, and the return of
\* resolveInvocationInput
RawBodyStored(r) ==
  Return(r, Some([method |-> r.method, path |-> r.resolvedPath.value, data |-> r.raw]))

\* params.append for the answer v to the prompt of field f
FormAppend(ps, f, v) ==
  IF f.isArrayLike /\ InSeq(",", v)
  THEN ps \o [k \in 1..Len(ArrayItems(v)) |-> <<f.name, ArrayItems(v)[k]>>]
  ELSE Append(ps, <<f.name, v>>)

\* promptFormBodyFromTypes after the prompt for field f was answered with
\* v: a cancelled prompt returns; otherwise the value is appended,
\* history.set is called and the function waits for it to settle
FormFieldAnswered(r, f, v) ==
  IF IsUndefined(v) THEN Return(r, Undefined)
  ELSE [r EXCEPT !.pc = "formFieldStore",
                 !.formParams = FormAppend(@, f, v.value),
                 !.history = HistorySet(@, historyKey("formField", f.name), v.value)]

\* promptFormBodyFromTypes after history.set settled: the prompt of the next
\* field, or the return of the form body and of resolveInvocationInput
FormFieldStored(r) ==
  IF r.k < Len(r.inferred.value)
  THEN ShowPrompt([r EXCEPT !.k = @ + 1], "formField", "formField",
                  r.inferred.value[r.k + 1].name)
  ELSE Return(r, Some([method |-> r.method, path |-> r.resolvedPath.value,
                       data |-> URLSearchParamsToString(r.formParams),
                       headers |-> <<W_formContentType>>]))

\* the positions at which a prompt function waits for history.set
StorePcs == {"pathParamStore", "rawBodyStore", "formFieldStore"}

\* the awaited history.set settles: fulfilled, the prompt function goes on;
\* rejected, its exception ends resolveInvocationInput
HistorySettled(r, fulfilled) ==
  IF ~fulfilled THEN HistoryRejected(r)
  ELSE IF r.pc = "pathParamStore" THEN PathParamStored(r)
  ELSE IF r.pc = "rawBodyStore" THEN RawBodyStored(r)
  ELSE FormFieldStored(r)

(***************************************************************************)
(* One triggered request: its arguments are given, then the prompts are    *)
(* answered or cancelled one at a time.                                    *)
(***************************************************************************)
W_body == <<"b","o","d","y">>
W_tags == <<"t","a","g","s">>

FormField(name, isArrayLike) == [name |-> name, isArrayLike |-> isArrayLike]

FieldLists ==
  {<<>>, <<FormField(W_body, FALSE)>>, <<FormField(W_tags, TRUE)>>,
   <<FormField(W_body, FALSE), FormField(W_tags, TRUE)>>}

InferOutcomes ==
  {[kind |-> k, fields |-> <<>>] : k \in {"importThrows", "inferThrows", "undefined"}}
    \cup {[kind |-> "fields", fields |-> fs] : fs \in FieldLists}

\* what the user does with an input box: cancels it, or accepts a text
PromptAnswers ==
  {Undefined} \cup {Some(v) : v \in {<<>>, <<" ">>, <<"7">>, <<"a",","," ","b">>}}

RunArgs ==
  [method : {W_get, W_post, toUpperCase(W_post), W_put, W_patch, W_delete},
   path : {<<"/","p">>, <<"/","u","/",":","i","d">>, <<":","i","d">>,
           <<"/",":">> \o W_proto}]

RunStart(a) ==
  [pc |-> "start", args |-> a, history |-> <<>>, names |-> <<>>, k |-> 0,
   values |-> <<>>, resolvedPath |-> Undefined, method |-> <<>>,
   inference |-> "none", inferred |-> Undefined, formParams |-> <<>>,
   prompts |-> <<>>, result |-> Undefined, threw |-> FALSE, raw |-> <<>>,
   rejected |-> FALSE]

InitRun ==
  /\ op = "none"
  /\ run \in {RunStart(a) : a \in RunArgs}
  /\ params = <<>> /\ argv = <<>>
  /\ RouteVarsIdle
  /\ JSDocVarsIdle
  /\ ParamVarsIdle
  /\ LexerVarsIdle
  /\ InferenceVarsIdle
  /\ CommandVarsIdle

\* resolveInvocationInput(args, history) up to its first await
StartResolve ==
  /\ run.pc = "start"
  /\ op' = "resolveInvocationInput"
  /\ run' = EnterPathParams(run, extractPathParamNames(run.args.path))
  /\ UNCHANGED <<prog, text, opts, tsFails, routes, raised, reLastIndex, reAtCall,
                 examples, path, values, names, resolved, params, argv, lexer, lookup, watch, command>>

\* the user answers or cancels a path parameter prompt
AnswerPathParam(v) ==
  /\ run.pc = "pathParam"
  /\ run' = PathParamAnswered(run, run.names[run.k], v)
  /\ UNCHANGED <<op, prog, text, opts, tsFails, routes, raised, reLastIndex, reAtCall,
                 examples, path, values, names, resolved, params, argv, lexer, lookup, watch, command>>

\* the inference ends with the outcome o
Infer(o) ==
  /\ run.pc = "infer"
  /\ run' = AfterInference([run EXCEPT !.inference =
                                  IF o.kind = "fields" /\ o.fields = <<>> THEN "empty"
                                  ELSE o.kind],
                           inferFormFieldsFromHonoSchema(o))
  /\ UNCHANGED <<op, prog, text, opts, tsFails, routes, raised, reLastIndex, reAtCall,
                 examples, path, values, names, resolved, params, argv, lexer, lookup, watch, command>>

\* the user answers or cancels the raw body prompt
AnswerRawBody(v) ==
  /\ run.pc = "rawBody"
  /\ run' = RawBodyAnswered(run, v)
  /\ UNCHANGED <<op, prog, text, opts, tsFails, routes, raised, reLastIndex, reAtCall,
                 examples, path, values, names, resolved, params, argv, lexer, lookup, watch, command>>

\* the user answers or cancels a form field prompt
AnswerFormField(v) ==
  /\ run.pc = "formField"
  /\ run' = FormFieldAnswered(run, run.inferred.value[run.k], v)
  /\ UNCHANGED <<op, prog, text, opts, tsFails, routes, raised, reLastIndex, reAtCall,
                 examples, path, values, names, resolved, params, argv, lexer, lookup, watch, command>>

\* the memento settles the update that history.set awaits
SettleHistory(fulfilled) ==
  /\ run.pc \in StorePcs
  /\ run' = HistorySettled(run, fulfilled)
  /\ UNCHANGED <<op, prog, text, opts, tsFails, routes, raised, reLastIndex, reAtCall,
                 examples, path, values, names, resolved, params, argv, lexer, lookup, watch, command>>

NextRun ==
  \/ StartResolve
  \/ \E fulfilled \in BOOLEAN : SettleHistory(fulfilled)
  \/ \E v \in PromptAnswers : AnswerPathParam(v)
  \/ \E o \in InferOutcomes : Infer(o)
  \/ \E v \in PromptAnswers : AnswerRawBody(v)
  \/ \E v \in PromptAnswers : AnswerFormField(v)

SpecRun == InitRun /\ [][NextRun]_vars

\* the outcomes of the inference that give no form fields
NoFieldsOutcomes == {"importThrows", "inferThrows", "undefined", "empty"}

\* C15: for a body-carrying method, when the body-schema inference throws
\* (the import of the type-system module included), returns undefined or
\* returns an empty field list, the flow continues with the raw-body
\* prompt, and no exception of the inference leaves resolveInvocationInput.
C15_InferenceFailureFallsBackToRawBody ==
  /\ ~run.threw
  /\ run.inference \in NoFieldsOutcomes =>
       /\ run.method \in BodyMethods
       /\ run.pc \in {"rawBody", "rawBodyStore", "done"}
       /\ run.prompts[Len(run.prompts)] = historyKey("rawBody", W_last)
  /\ run.pc \in {"rawBody", "rawBodyStore"} => run.inference \in NoFieldsOutcomes

\* the import threw for a put request with a path parameter, the raw-body
\* prompt was shown and answered, and the input carries that body
C15_Witness ==
  /\ run.pc = "done"
  /\ run.inference = "importThrows"
  /\ run.args.method = W_put
  /\ run.names # <<>>
  /\ ~IsUndefined(run.result)
  /\ "data" \in DOMAIN run.result.value
  /\ run.result.value.data = <<"a",","," ","b">>


(***************************************************************************)
(* shared/commentRanges.ts: findCommentRanges, one loop iteration at a     *)
(* time.  The record lexer holds the locals of the function under their    *)
(* names; inString is "null" outside strings.                              *)
(***************************************************************************)
Range(start, end) == [start |-> start, end |-> end]

LexerStart ==
  [pc |-> "loop", i |-> 0, inLine |-> FALSE, inBlock |-> FALSE, inString |-> "null",
   escape |-> FALSE, start |-> 0, ranges |-> <<>>]

\* i++ ; continue
Advance(l, n) == [l EXCEPT !.i = @ + n]

\* the in-string branch without the escape flag
LexInString_noEscape(l, ch) ==
  IF ch = l.inString THEN Advance([l EXCEPT !.inString = "null"], 1)
  ELSE Advance(l, 1)

\* if (inString) { ... }
LexInString(l, ch) ==
  IF l.escape THEN Advance([l EXCEPT !.escape = FALSE], 1)
  ELSE IF ch = "\\" THEN Advance([l EXCEPT !.escape = TRUE], 1)
  ELSE IF ch = l.inString THEN Advance([l EXCEPT !.inString = "null"], 1)
  ELSE Advance(l, 1)

\* the in-line branch, leaving inLine set at the newline
LexInLine_staysInLine(l, ch) ==
  IF ch = "\n"
  THEN Advance([l EXCEPT !.ranges = Append(@, Range(l.start, l.i))], 1)
  ELSE Advance(l, 1)

\* if (inLine) { ... }
LexInLine(l, ch) ==
  IF ch = "\n"
  THEN Advance([l EXCEPT !.ranges = Append(@, Range(l.start, l.i)), !.inLine = FALSE], 1)
  ELSE Advance(l, 1)

\* if (inBlock) { ... }
LexInBlock(l, ch, next) ==
  IF ch = "*" /\ next = "/"
  THEN Advance([l EXCEPT !.ranges = Append(@, Range(l.start, l.i + 2)), !.inBlock = FALSE], 2)
  ELSE Advance(l, 1)

\* the rest of the loop body: a quote, a comment opener, or another character
LexCode(l, ch, next) ==
  IF ch \in Quote THEN Advance([l EXCEPT !.inString = ch], 1)
  ELSE IF ch = "/" /\ next = "/" THEN Advance([l EXCEPT !.inLine = TRUE, !.start = l.i], 2)
  ELSE IF ch = "/" /\ next = "*" THEN Advance([l EXCEPT !.inBlock = TRUE, !.start = l.i], 2)
  ELSE Advance(l, 1)

\* the end of the scan without the two pushes after the loop
LexEnd_noFlush(l, len) == [l EXCEPT !.pc = "done"]

\* after the loop: the comment that is still open ends at text.length
LexEnd(l, len) ==
  [l EXCEPT !.pc = "done",
            !.ranges = @ \o (IF l.inLine THEN <<Range(l.start, len)>> ELSE <<>>)
                         \o (IF l.inBlock THEN <<Range(l.start, len)>> ELSE <<>>)]

(***************************************************************************)
(* A text is given, then findCommentRanges scans it.                       *)
(***************************************************************************)
ScanChars == {"/", "*", "\n", "'", "\"", BackTick, "\\", "a"}

MaxScanLen == 5

ScanTexts == UNION {[1..n -> ScanChars] : n \in 0..MaxScanLen}

InitScan ==
  /\ op = "none"
  /\ text \in ScanTexts
  /\ lexer = LexerStart
  /\ InferenceVarsIdle
  /\ CommandVarsIdle
  /\ prog = <<>> /\ opts = "omitted" /\ tsFails = FALSE /\ routes = <<>> /\ raised = FALSE
  /\ JSDocVarsIdle
  /\ ParamVarsIdle
  /\ RequestVarsIdle

\* what a loop iteration changes
ScanTo(l) ==
  /\ op' = "findCommentRanges"
  /\ lexer' = l
  /\ UNCHANGED <<prog, text, opts, tsFails, routes, raised, reLastIndex, reAtCall,
                 examples, path, values, names, resolved, params, argv, run, lookup, watch, command>>

\* the loop condition holds
InLoop == lexer.pc = "loop" /\ lexer.i < Len(text)

ScanInString ==
  /\ InLoop
  /\ lexer.inString # "null"
  /\ ScanTo(LexInString(lexer, CharAt(text, lexer.i)))

ScanInLine ==
  /\ InLoop
  /\ lexer.inString = "null" /\ lexer.inLine
  /\ ScanTo(LexInLine(lexer, CharAt(text, lexer.i)))

ScanInBlock ==
  /\ InLoop
  /\ lexer.inString = "null" /\ ~lexer.inLine /\ lexer.inBlock
  /\ ScanTo(LexInBlock(lexer, CharAt(text, lexer.i), CharAt(text, lexer.i + 1)))

ScanCode ==
  /\ InLoop
  /\ lexer.inString = "null" /\ ~lexer.inLine /\ ~lexer.inBlock
  /\ ScanTo(LexCode(lexer, CharAt(text, lexer.i), CharAt(text, lexer.i + 1)))

ScanEnd ==
  /\ lexer.pc = "loop" /\ lexer.i >= Len(text)
  /\ ScanTo(LexEnd(lexer, Len(text)))

NextScan ==
  \/ ScanInString
  \/ ScanInLine
  \/ ScanInBlock
  \/ ScanCode
  \/ ScanEnd

SpecScan == InitScan /\ [][NextScan]_vars


\* the scanner's view of the current position
InComment(l) == l.inLine \/ l.inBlock
BareCode(l) == l.inString = "null" /\ ~InComment(l)
OpenerAt(t, i) == CharAt(t, i) = "/" /\ CharAt(t, i + 1) \in {"/", "*"}
W_blockEnd == <<"*", "/">>

\* C16: the ranges found so far are in increasing order without overlap
\* (each ends at or before the start of the next), each satisfies
\* 0 <= start < end <= text length, and at every scan step at most one of
\* in-string, in-line-comment and in-block-comment holds.
C16_RangesOrderedModesExclusive ==
  /\ \A k \in 1..Len(lexer.ranges) :
       /\ 0 <= lexer.ranges[k].start
       /\ lexer.ranges[k].start < lexer.ranges[k].end
       /\ lexer.ranges[k].end <= Len(text)
  /\ \A k \in 1..(Len(lexer.ranges) - 1) :
       lexer.ranges[k].end <= lexer.ranges[k + 1].start
  /\ Cardinality({m \in {"string", "line", "block"} :
                    \/ m = "string" /\ lexer.inString # "null"
                    \/ m = "line" /\ lexer.inLine
                    \/ m = "block" /\ lexer.inBlock}) <= 1

\* a scan that ended with two ranges
C16_Witness ==
  /\ lexer.pc = "done"
  /\ Len(lexer.ranges) = 2
  /\ lexer.ranges[1].end < lexer.ranges[2].start

\* a range of the result: it starts at an opener; a line comment runs to the
\* first newline, or to the end of a text without one; a block comment runs
\* to just after the first star-slash behind its opener, or to the end of a
\* text without one
WellFormedRange(t, r) ==
  /\ OpenerAt(t, r.start)
  /\ CharAt(t, r.start + 1) = "/" =>
       /\ \A j \in r.start..(r.end - 1) : CharAt(t, j) # "\n"
       /\ r.end = Len(t) \/ CharAt(t, r.end) = "\n"
  /\ CharAt(t, r.start + 1) = "*" =>
       /\ \A j \in (r.start + 2)..(r.end - 3) : ~StartsWithAt(t, W_blockEnd, j)
       /\ \/ r.end - 2 >= r.start + 2 /\ StartsWithAt(t, W_blockEnd, r.end - 2)
          \/ r.end = Len(t) /\ ~StartsWithAt(t, W_blockEnd, r.end - 2)
          \/ r.end = Len(t) /\ r.end - 2 < r.start + 2

C17_RangesShape ==
  /\ \A k \in 1..Len(lexer.ranges) : WellFormedRange(text, lexer.ranges[k])
  /\ lexer.pc = "loop" /\ InComment(lexer) =>
       /\ OpenerAt(text, lexer.start)
       /\ lexer.inLine <=> CharAt(text, lexer.start + 1) = "/"
       /\ \A k \in 1..Len(lexer.ranges) : lexer.ranges[k].end <= lexer.start

\* one loop iteration, or the code after the loop, seen from the comments
C17_Step ==
  lexer.pc = "loop" =>
    /\ BareCode(lexer) /\ OpenerAt(text, lexer.i) =>
         /\ lexer'.start = lexer.i
         /\ lexer'.ranges = lexer.ranges
         /\ lexer'.inLine = (CharAt(text, lexer.i + 1) = "/")
         /\ lexer'.inBlock = (CharAt(text, lexer.i + 1) = "*")
    /\ BareCode(lexer) /\ ~OpenerAt(text, lexer.i) =>
         lexer'.ranges = lexer.ranges /\ ~InComment(lexer')
    /\ lexer.inString # "null" => lexer'.ranges = lexer.ranges /\ ~InComment(lexer')
    /\ lexer.inLine =>
         IF lexer.i >= Len(text)
         THEN lexer'.ranges = Append(lexer.ranges, Range(lexer.start, Len(text)))
         ELSE IF CharAt(text, lexer.i) = "\n"
         THEN /\ lexer'.ranges = Append(lexer.ranges, Range(lexer.start, lexer.i))
              /\ BareCode(lexer')
         ELSE lexer'.ranges = lexer.ranges /\ lexer'.inLine /\ lexer'.start = lexer.start
    /\ lexer.inBlock =>
         IF lexer.i >= Len(text)
         THEN lexer'.ranges = Append(lexer.ranges, Range(lexer.start, Len(text)))
         ELSE IF StartsWithAt(text, W_blockEnd, lexer.i)
         THEN /\ lexer'.ranges = Append(lexer.ranges, Range(lexer.start, lexer.i + 2))
              /\ BareCode(lexer')
         ELSE lexer'.ranges = lexer.ranges /\ lexer'.inBlock /\ lexer'.start = lexer.start

\* C17: every comment opener met in bare code yields exactly one range,
\* which starts at the opener's first slash; a line comment's range ends at
\* the index of the newline, which is excluded; a block comment's range
\* ends just after its closing star-slash; a comment still open at the end
\* of the text yields a final range that ends at the text length.
C17_OneRangePerOpener == []C17_RangesShape /\ [][C17_Step]_vars

\* a closed line comment, then a block comment that the end of the text
\* leaves open
C17_Witness ==
  /\ lexer.pc = "done"
  /\ text = <<"/", "/", "\n", "/", "*">>
  /\ lexer.ranges = <<Range(0, 2), Range(3, 5)>>

\* one loop iteration, seen from the strings
C18_Step ==
  lexer.pc = "loop" /\ lexer.i < Len(text) =>
    /\ lexer.inString # "null" =>
         /\ lexer'.ranges = lexer.ranges
         /\ ~InComment(lexer')
         /\ lexer'.i = lexer.i + 1
         /\ lexer.escape => lexer'.inString = lexer.inString /\ ~lexer'.escape
         /\ ~lexer.escape /\ CharAt(text, lexer.i) = "\\" =>
              lexer'.inString = lexer.inString /\ lexer'.escape
         /\ ~lexer.escape /\ CharAt(text, lexer.i) = lexer.inString =>
              lexer'.inString = "null"
         /\ ~lexer.escape /\ CharAt(text, lexer.i) \notin {"\\", lexer.inString} =>
              lexer'.inString = lexer.inString /\ ~lexer'.escape
    /\ InComment(lexer) => lexer'.inString = "null"
    /\ BareCode(lexer) /\ CharAt(text, lexer.i) \in Quote =>
         lexer'.inString = CharAt(text, lexer.i) /\ lexer'.ranges = lexer.ranges

\* no range starts or ends inside a string of the scanner
C18_NoRangeInString ==
  /\ lexer.escape => lexer.inString # "null"
  /\ lexer.inString # "null" => ~InComment(lexer)

\* C18: a double slash or a slash-star inside a string literal (single
\* quote, double quote or backtick) starts no range; inside a string a
\* backslash escapes the next character, so an escaped quote does not close
\* the string; a quote character inside a comment does not open a string.
C18_StringsHideOpeners == []C18_NoRangeInString /\ [][C18_Step]_vars

\* a string whose escaped quote keeps it open over a double slash
C18_Witness ==
  /\ lexer.pc = "done"
  /\ text = <<"'", "\\", "'", "/", "/">>
  /\ lexer.inString = "'"
  /\ lexer.ranges = <<>>


(***************************************************************************)
(* Texts with route-like text inside string literals, given to the         *)
(* parseRoutesFromText of both modules.                                    *)
(***************************************************************************)
\* const s = "app.get('/x', h)"
I_strGet  == ConstItem(<<"s">>, Lit("\"", <<"a","p","p",".","g","e","t","(","'","/","x","'",","," ","h",")">>))
\* const t = 'app.post("/y", h)'
I_strPost == ConstItem(<<"t">>, Lit("'", <<"a","p","p",".","p","o","s","t","(","\"","/","y","\"",","," ","h",")">>))

PoolStrings == {I_strGet, I_strPost, I_lit, I_lineC}

InitStrings == InitWith(PoolStrings, Opts, {FALSE})

\* parseRoutesFromText(text, opts) of routeParser.ts on the given text
CallParseRoutesRegexOnlyOfText ==
  /\ op = "none"
  /\ CallParseRoutesRegexOnly(text, opts)

NextStrings ==
  \/ CallParseRoutes
  \/ CallParseRoutesRegexOnlyOfText

SpecStrings == InitStrings /\ [][NextStrings]_vars

\* the offset at lies inside a string literal that a declaration of p
\* initialises its constant with
InStringLiteral(p, at) ==
  \E j \in 1..Len(p) :
    /\ p[j].k = "const"
    /\ p[j].init.e = "lit"
    /\ at >= ItemOffset(p, j) + Len(W_const) + 1 + Len(p[j].name) + 3
    /\ at < ItemOffset(p, j) + Len(RenderItem(p[j]))

\* C19: route-like text inside a string literal, as in
\* const s = "app.get('/x', h)", is never emitted as a route by
\* parseRoutesFromText, whichever strategy produces the result.
C19_StringTextNeverEmitted ==
  Parsed => \A k \in 1..Len(routes) : ~InStringLiteral(prog, routes[k].callStartIndex)


(***************************************************************************)
(* Texts with calls whose receiver is not a single identifier or whose     *)
(* method is not one of the seven lowercase names.                         *)
(***************************************************************************)
\* the receiver expression this.app: a property access whose first token
\* is this
W_thisApp == <<"t","h","i","s",".","a","p","p">>

\* this.app.get('/a', h)
I_this  == Route(<<>>, W_thisApp, W_get, Lit("'", <<"/","a">>))
\* app.get('/a', h).post('/b', h)
I_chain == ChainItem(Route(<<>>, W_app, W_get, Lit("'", <<"/","a">>)), W_post,
                     <<Lit("'", <<"/","b">>), W_h>>)
\* app.GET('/x', h)
I_upper == Route(<<>>, W_app, toUpperCase(W_get), Lit("'", <<"/","x">>))

PoolShapes == {I_this, I_chain, I_upper, I_litDq}

InitShapes == InitWith(PoolShapes, {"omitted"}, BOOLEAN)

SpecShapes == InitShapes /\ [][Next]_vars

\* w is one identifier
IsIdentifier(w) ==
  /\ Len(w) > 0
  /\ w[1] \in IdStart
  /\ \A k \in 2..Len(w) : w[k] \in IdPart

\* statement k of p is a call of the recognised shape that r was emitted for
RecognizedCallOf(p, k, r) ==
  /\ p[k].k = "call"
  /\ IsIdentifier(p[k].recv)
  /\ IsValidMethod(p[k].method)
  /\ r.method = p[k].method
  /\ r.callStartIndex = ReceiverStart(p, k)

\* C20: every emitted ParsedRoute belongs to a call of the recognised
\* shape: the receiver is a single identifier, the method is exactly one of
\* the seven lowercase names, and callStartIndex is the offset of the first
\* character of the receiver identifier; this.app.get(...), the chained
\* app.get('/a', h).post('/b', h) and app.GET(...) are not emitted.
C20_OnlyRecognizedCalls ==
  Parsed => \A j \in 1..Len(routes) : \E k \in 1..Len(prog) :
              RecognizedCallOf(prog, k, routes[j])


(***************************************************************************)
(* Texts with several declarations of the identifier a route call uses.    *)
(***************************************************************************)
\* const API = '/v2'
I_const2 == ConstItem(W_API, Lit("'", <<"/","v","2">>))
\* let API = '/let'
I_let    == LetItem(W_API, Lit("'", <<"/","l","e","t">>))
\* { const API = '/in' }
I_nested == NestedItem(ConstItem(W_API, Lit("'", <<"/","i","n">>)))

PoolDecls == {I_id, I_const, I_const2, I_let, I_nested}

InitDecls == InitWith(PoolDecls, {"omitted"}, {FALSE})

SpecDecls == InitDecls /\ [][Next]_vars

\* the top-level const declarations of name before statement k
PrecedingConsts(p, k, name) ==
  {j \in 1..(k - 1) : p[j].k = "const" /\ p[j].name = name}

\* the nearest of them
NearestConst(p, k, name) ==
  CHOOSE j \in PrecedingConsts(p, k, name) : \A i \in PrecedingConsts(p, k, name) : i <= j

\* the routes C21 describes for the calls of p from statement k on, whose
\* declarations are all initialised with non-empty literals
RECURSIVE NearestConstRoutes(_, _)
NearestConstRoutes(p, k) ==
  IF k > Len(p) THEN <<>>
  ELSE IF p[k].k = "call" /\ PrecedingConsts(p, k, p[k].args[1].name) # {}
  THEN <<ParsedRoute(p[k].method,
                     p[NearestConst(p, k, p[k].args[1].name)].init.v,
                     ReceiverStart(p, k))>> \o NearestConstRoutes(p, k + 1)
  ELSE NearestConstRoutes(p, k + 1)

\* C21: an identifier used as path argument resolves to the nearest
\* top-level const declaration of that name that precedes the call;
\* declarations after the call, nested in a block, or not const are not
\* used, and a call without a preceding top-level const declaration is
\* dropped.
C21_NearestPrecedingTopLevelConst ==
  Parsed => routes = NearestConstRoutes(prog, 1)


(***************************************************************************)
(* Texts of two documentation blocks before a post call, whose lines       *)
(* include @ tags other than @example; every method line is a POST line.   *)
(***************************************************************************)
\* @param x
L_tag      == DocLine(<<"@","p","a","r","a","m"," ","x">>, "tag", <<>>, <<>>, 0)
\* @returns }
L_tagClose == DocLine(<<"@","r","e","t","u","r","n","s"," ","}">>, "tag", <<>>, <<>>, -1)

TagLinePool == {L_example, L_tag, L_tagClose, L_post, L_open, L_close}

\* the lines of the second block
SecondBlocks == {<<>>, <<L_post>>, <<L_example, L_post>>}

TagLayout == [lead |-> <<>>, deco |-> <<" ", "*", " ">>]

TagDocs ==
  {[layout |-> TagLayout, lines |-> ls, tail |-> Tail_post, more |-> ms] :
     ls \in UNION {[1..n -> TagLinePool] : n \in 0..MaxDocLines},
     ms \in SecondBlocks}

\* the two blocks of a document, each as a document of one block
FirstDoc(d)  == [layout |-> d.layout, lines |-> d.lines, tail |-> Tail_none]
SecondDoc(d) == [layout |-> d.layout, lines |-> d.more, tail |-> d.tail]

\* the text: the first block, a newline, the second block and the call
TagDocText(d) == DocText(FirstDoc(d)) \o <<"\n">> \o DocText(SecondDoc(d))

InitDocTags ==
  /\ op = "none"
  /\ prog \in TagDocs
  /\ text = TagDocText(prog)
  /\ opts = "omitted" /\ tsFails = FALSE /\ routes = <<>> /\ raised = FALSE
  /\ JSDocVarsIdle
  /\ ParamVarsIdle
  /\ RequestVarsIdle
  /\ LexerVarsIdle
  /\ InferenceVarsIdle
  /\ CommandVarsIdle

SpecDocTags == InitDocTags /\ [][NextDocs]_vars

\* the offset in the text of the content of line i of the second block
SecondContentOffset(d, i) ==
  Len(DocText(FirstDoc(d))) + 1 + ContentOffset(SecondDoc(d), i)

\* an @ tag line, @example included
IsTagLine(l) == l.kind \in {"tag", "example"}

\* line i opens a body over several lines, and a tag line is reached before
\* the braces balance
TagBeforeBalance(ls, i) ==
  /\ ls[i].kind = "method" /\ ls[i].net > 0
  /\ \E j \in (i + 1)..Len(ls) :
       /\ IsTagLine(ls[j])
       /\ \A k \in i..(j - 1) : NetOf(ls, i, k) > 0

\* C22: when, during the extraction of a JSON body over several lines, a
\* line starting with an @ tag is reached before the brace balance is back
\* at zero, the extraction stops and the example is not emitted, also when
\* the tag line itself holds the closing brace.
C22_TagLineStopsExtraction ==
  ParsedDocs =>
    \A i \in 1..Len(prog.lines) :
      TagBeforeBalance(prog.lines, i) =>
        \A k \in 1..Len(examples) :
          examples[k].methodStartIndex # ContentOffset(prog, i)

\* the line on which the extraction of the body begun on line i completes,
\* 0 when it does not
ExtractedUpTo(ls, i) ==
  LET ends == {j \in i..Len(ls) :
                 /\ NetOf(ls, i, j) = 0
                 /\ \A k \in i..(j - 1) : NetOf(ls, i, k) > 0
                 /\ \A k \in (i + 1)..(j - 1) : ~IsTagLine(ls[k])}
  IN IF ends = {} THEN 0 ELSE CHOOSE j \in ends : TRUE

\* the flag after the lines i..j, each tag line acting on it
RECURSIVE FlagAfter(_, _, _, _)
FlagAfter(ls, i, j, flag) ==
  IF i > j THEN flag
  ELSE FlagAfter(ls, i + 1, j,
                 IF ls[i].kind = "example" THEN TRUE
                 ELSE IF ls[i].kind = "tag" THEN FALSE ELSE flag)

\* the lines of a block whose method line yields an example under the flag
\* of C23, from line i on with the flag as given
RECURSIVE FlagExampleLines(_, _, _)
FlagExampleLines(ls, i, flag) ==
  IF i > Len(ls) THEN <<>>
  ELSE IF IsTagLine(ls[i]) THEN FlagExampleLines(ls, i + 1, FlagAfter(ls, i, i, flag))
  ELSE IF ls[i].kind = "method" /\ ExtractedUpTo(ls, i) > 0
  THEN (IF flag THEN <<i>> ELSE <<>>)
         \o FlagExampleLines(ls, ExtractedUpTo(ls, i) + 1,
                             FlagAfter(ls, i, ExtractedUpTo(ls, i), flag))
  ELSE FlagExampleLines(ls, i + 1, flag)

\* the methodStartIndex values of the examples C23 describes: the flag is
\* clear at the start of either block
FlagExampleOffsets(d) ==
  [k \in 1..Len(FlagExampleLines(d.lines, 1, FALSE)) |->
     ContentOffset(d, FlagExampleLines(d.lines, 1, FALSE)[k])]
    \o [k \in 1..Len(FlagExampleLines(d.more, 1, FALSE)) |->
          SecondContentOffset(d, FlagExampleLines(d.more, 1, FALSE)[k])]

\* C23: within a block a METHOD {json} line yields an example only while
\* the inside-example flag is set; the flag is set by a line starting with
\* @example, cleared by any line starting with another @ tag, clear at the
\* start of every block and not carried over to the next block; method
\* lines met while it is clear yield nothing.
C23_ExampleFlag ==
  ParsedDocs =>
    [k \in 1..Len(examples) |-> examples[k].methodStartIndex] = FlagExampleOffsets(prog)


(***************************************************************************)
(* typeInference.ts, findRouteCallExpression.  The source file is the list *)
(* of its call expressions with a property access as callee, in the order  *)
(* in which visit meets them: prop is node.expression.name.text, arg the   *)
(* text of the first argument when it is a string literal, line the line   *)
(* of node.getStart().  The result is the position of the call returned.   *)
(***************************************************************************)
Abs(n) == IF n < 0 THEN -n ELSE n

\* the matches collected by visit: positions of the matching calls
RECURSIVE CollectMatches(_, _, _)
CollectMatches(calls, ps, k) ==
  IF k > Len(calls) THEN <<>>
  ELSE (IF /\ calls[k].prop = ps.method
           /\ ~IsUndefined(calls[k].arg)
           /\ calls[k].arg.value = ps.routePathLiteral
        THEN <<[call |-> k, line |-> calls[k].line]>>
        ELSE <<>>) \o CollectMatches(calls, ps, k + 1)

\* a sort that puts an element before the elements that compare equal to it
RECURSIVE InsertSorted_tiesLast(_, _, _)
InsertSorted_tiesLast(sorted, m, line) ==
  IF sorted = <<>> THEN <<m>>
  ELSE IF Abs(sorted[1].line - line) - Abs(m.line - line) < 0
  THEN <<sorted[1]>> \o InsertSorted_tiesLast(Tail(sorted), m, line)
  ELSE <<m>> \o sorted

\* Array.prototype.sort is stable: an element goes after the elements of
\* the sorted prefix that the comparator does not put after it
RECURSIVE InsertSorted(_, _, _)
InsertSorted(sorted, m, line) ==
  IF sorted = <<>> THEN <<m>>
  ELSE IF Abs(sorted[1].line - line) - Abs(m.line - line) <= 0
  THEN <<sorted[1]>> \o InsertSorted(Tail(sorted), m, line)
  ELSE <<m>> \o sorted

\* matches.sort((a, b) => Math.abs(a.line - line) - Math.abs(b.line - line))
RECURSIVE SortByDistance(_, _)
SortByDistance(matches, line) ==
  IF matches = <<>> THEN <<>>
  ELSE InsertSorted(SortByDistance(SubSeq(matches, 1, Len(matches) - 1), line),
                    matches[Len(matches)], line)

ReturnFirstMatch(matches, ps) ==
  IF Len(matches) = 0 THEN Undefined
  ELSE IF IsUndefined(ps.line) THEN Some(matches[1].call)
  ELSE Some(SortByDistance(matches, ps.line.value)[1].call)

findRouteCallExpression(calls, ps) == ReturnFirstMatch(CollectMatches(calls, ps, 1), ps)

MaxCalls == 3
MaxLine == 3

PropertyCalls ==
  [prop : {"get", "post"}, arg : {Some("/a"), Undefined}, line : 0..MaxLine]

\* the calls of a source file: a call met later does not start on an earlier line
SourceCalls ==
  {cs \in UNION {[1..n -> PropertyCalls] : n \in 0..MaxCalls} :
     \A k \in 1..(Len(cs) - 1) : cs[k].line <= cs[k + 1].line}

FindParams ==
  [method : {"get"}, routePathLiteral : {"/a"},
   line : {Undefined} \cup {Some(n) : n \in 0..MaxLine}]

InitFindCall ==
  /\ op = "none"
  /\ lookup \in [calls : SourceCalls, params : FindParams, result : {Undefined}]
  /\ prog = <<>> /\ text = <<>>
  /\ opts = "omitted" /\ tsFails = FALSE /\ routes = <<>> /\ raised = FALSE
  /\ JSDocVarsIdle
  /\ ParamVarsIdle
  /\ RequestVarsIdle
  /\ LexerVarsIdle
  /\ CommandVarsIdle

CallFindRouteCallExpression ==
  /\ op = "none"
  /\ op' = "findRouteCallExpression"
  /\ lookup' = [lookup EXCEPT !.result = findRouteCallExpression(lookup.calls, lookup.params)]
  /\ UNCHANGED <<prog, text, opts, tsFails, routes, raised, reLastIndex, reAtCall,
                 examples, path, values, names, resolved, params, argv, run, lexer,
                 watch, command>>

NextFindCall == CallFindRouteCallExpression

SpecFindCall == InitFindCall /\ [][NextFindCall]_vars

\* the positions of the calls that match (method, routePathLiteral)
MatchingCalls(l) ==
  {k \in 1..Len(l.calls) :
     /\ l.calls[k].prop = l.params.method
     /\ l.calls[k].arg = Some(l.params.routePathLiteral)}

\* the distance of call k from the hint line; 0 when no hint is given
HintDistance(l, k) ==
  IF IsUndefined(l.params.line) THEN 0
  ELSE Abs(l.calls[k].line - l.params.line.value)

\* C24: of several calls matching (method, routePathLiteral),
\* findRouteCallExpression returns the one whose line is closest to the hint
\* line; among equally close matches, and when no hint line is given, the
\* first in traversal order; it returns undefined only when nothing matches.
C24_ClosestMatchFirstOnTie ==
  op = "findRouteCallExpression" =>
    IF MatchingCalls(lookup) = {} THEN IsUndefined(lookup.result)
    ELSE /\ ~IsUndefined(lookup.result)
         /\ lookup.result.value \in MatchingCalls(lookup)
         /\ \A k \in MatchingCalls(lookup) :
              \/ HintDistance(lookup, lookup.result.value) < HintDistance(lookup, k)
              \/ /\ HintDistance(lookup, lookup.result.value) = HintDistance(lookup, k)
                 /\ lookup.result.value <= k

\* two matches at the same distance on either side of the hint line, and a
\* third one further away that comes first: the first of the two is returned
C24_Witness ==
  /\ op = "findRouteCallExpression"
  /\ Cardinality(MatchingCalls(lookup)) = 3
  /\ ~IsUndefined(lookup.params.line)
  /\ lookup.result = Some(2)
  /\ HintDistance(lookup, 2) = HintDistance(lookup, 3)
  /\ lookup.calls[2].line < lookup.calls[3].line


(***************************************************************************)
(* typeInference.ts, findHonoSchemaType.  The types are numbered; a type   *)
(* has its flags, the name symName evaluates to, its type arguments and,   *)
(* for a union or intersection, its member types.  The record lookup holds *)
(* the locals of the recursive walk: the argument t of the call at hand,   *)
(* the frames of the calls waiting in their for loop, seen, the types in   *)
(* the order in which they were added to seen, and the value returned.     *)
(***************************************************************************)
\* a walk that never finds its argument in seen
HasSeen_never(seen, t) == FALSE

\* seen.has(t)
HasSeen(seen, t) == t \in seen

\* typeArgs && typeArgs.length >= 2 with symName === "Hono"
IsHonoType(ty) == Len(ty.typeArgs) >= 2 /\ ty.symName = "Hono"

\* (t.flags & Intersection) !== 0 || (t.flags & Union) !== 0
IsUnionOrIntersection(ty) == ty.flags \in {"Union", "Intersection"}

MaxTypes == 3
MaxMembers == 2

TypeIds == 1..MaxTypes

\* the i-th type argument of type n, a type outside the walk
TypeArg(n, i) == [argOf |-> n, index |-> i]

TypeArgs(n, count) == [i \in 1..count |-> TypeArg(n, i)]

MemberLists == UNION {[1..n -> TypeIds] : n \in 0..MaxMembers}

\* the shapes of type n: an object type named Hono with one or two type
\* arguments or another generic type, a plain union or intersection, or a
\* union under the alias Hono
TypeShapes(n) ==
  {[flags |-> "Object", symName |-> nm, typeArgs |-> TypeArgs(n, c), types |-> <<>>] :
     nm \in {"Hono"}, c \in {1, 2}}
  \cup {[flags |-> "Object", symName |-> "Other", typeArgs |-> TypeArgs(n, 2), types |-> <<>>]}
  \cup {[flags |-> f, symName |-> "Other", typeArgs |-> <<>>, types |-> ms] :
          f \in {"Union", "Intersection"}, ms \in MemberLists}
  \cup {[flags |-> "Union", symName |-> "Hono", typeArgs |-> TypeArgs(n, 2), types |-> ms] :
          ms \in MemberLists}

\* the graphs of the types 1..n
RECURSIVE GraphsOf(_)
GraphsOf(n) ==
  IF n = 0 THEN {<<>>}
  ELSE {Append(g, ty) : g \in GraphsOf(n - 1), ty \in TypeShapes(n)}

TypeGraphs == GraphsOf(MaxTypes)

\* findHonoSchemaType(type, checker): walk(type) is called with seen empty
WalkStart(g) ==
  [graph |-> g, pc |-> "call", t |-> 1, stack |-> <<>>, seen |-> {},
   visited |-> <<>>, ret |-> Undefined, result |-> Undefined]

InitFindSchema ==
  /\ op = "none"
  /\ lookup \in {WalkStart(g) : g \in TypeGraphs}
  /\ prog = <<>> /\ text = <<>>
  /\ opts = "omitted" /\ tsFails = FALSE /\ routes = <<>> /\ raised = FALSE
  /\ JSDocVarsIdle
  /\ ParamVarsIdle
  /\ RequestVarsIdle
  /\ LexerVarsIdle
  /\ CommandVarsIdle

WalkTo(l) ==
  /\ op' = "findHonoSchemaType"
  /\ lookup' = l
  /\ UNCHANGED <<prog, text, opts, tsFails, routes, raised, reLastIndex, reAtCall,
                 examples, path, values, names, resolved, params, argv, run, lexer,
                 watch, command>>

Entered(l) == [l EXCEPT !.seen = l.seen \cup {l.t}, !.visited = Append(l.visited, l.t)]

\* if (seen.has(t)) return undefined
WalkSeen ==
  /\ lookup.pc = "call" /\ HasSeen(lookup.seen, lookup.t)
  /\ WalkTo([lookup EXCEPT !.pc = "return", !.ret = Undefined])

\* if (symName === "Hono") return typeArgs[1]
WalkHono ==
  /\ lookup.pc = "call" /\ ~HasSeen(lookup.seen, lookup.t)
  /\ IsHonoType(lookup.graph[lookup.t])
  /\ WalkTo([Entered(lookup) EXCEPT !.pc = "return",
                                    !.ret = Some(lookup.graph[lookup.t].typeArgs[2])])

\* the for loop over ut.types is entered
WalkMembers ==
  /\ lookup.pc = "call" /\ ~HasSeen(lookup.seen, lookup.t)
  /\ ~IsHonoType(lookup.graph[lookup.t])
  /\ IsUnionOrIntersection(lookup.graph[lookup.t])
  /\ WalkTo([Entered(lookup) EXCEPT !.pc = "loop",
                                    !.stack = Append(lookup.stack, [t |-> lookup.t, i |-> 1])])

\* neither: return undefined
WalkOther ==
  /\ lookup.pc = "call" /\ ~HasSeen(lookup.seen, lookup.t)
  /\ ~IsHonoType(lookup.graph[lookup.t])
  /\ ~IsUnionOrIntersection(lookup.graph[lookup.t])
  /\ WalkTo([Entered(lookup) EXCEPT !.pc = "return", !.ret = Undefined])

TopFrame(l) == l.stack[Len(l.stack)]

Popped(l) == SubSeq(l.stack, 1, Len(l.stack) - 1)

\* const found = walk(ct) for the next member
NextMember ==
  /\ lookup.pc = "loop"
  /\ TopFrame(lookup).i <= Len(lookup.graph[TopFrame(lookup).t].types)
  /\ WalkTo([lookup EXCEPT !.pc = "call",
                           !.t = lookup.graph[TopFrame(lookup).t].types[TopFrame(lookup).i],
                           !.stack[Len(lookup.stack)].i = TopFrame(lookup).i + 1])

\* the loop ends: return undefined
MembersDone ==
  /\ lookup.pc = "loop"
  /\ TopFrame(lookup).i > Len(lookup.graph[TopFrame(lookup).t].types)
  /\ WalkTo([lookup EXCEPT !.pc = "return", !.ret = Undefined, !.stack = Popped(lookup)])

\* if (found) return found
ReturnFound ==
  /\ lookup.pc = "return" /\ lookup.stack # <<>> /\ ~IsUndefined(lookup.ret)
  /\ WalkTo([lookup EXCEPT !.stack = Popped(lookup)])

\* found is undefined: the loop goes on
ReturnNothing ==
  /\ lookup.pc = "return" /\ lookup.stack # <<>> /\ IsUndefined(lookup.ret)
  /\ WalkTo([lookup EXCEPT !.pc = "loop"])

\* return walk(type)
WalkReturns ==
  /\ lookup.pc = "return" /\ lookup.stack = <<>>
  /\ WalkTo([lookup EXCEPT !.pc = "done", !.result = lookup.ret])

NextFindSchema ==
  \/ WalkSeen
  \/ WalkHono
  \/ WalkMembers
  \/ WalkOther
  \/ NextMember
  \/ MembersDone
  \/ ReturnFound
  \/ ReturnNothing
  \/ WalkReturns

\* the walk is synchronous code: once called it runs until it returns
SpecFindSchema == InitFindSchema /\ [][NextFindSchema]_vars /\ WF_vars(NextFindSchema)

\* the types in depth-first order from type n on, members in their order,
\* each type once
RECURSIVE DepthFirst(_, _, _)
RECURSIVE DepthFirstAll(_, _, _)
DepthFirst(g, n, done) ==
  IF n \in done THEN <<>>
  ELSE <<n>> \o DepthFirstAll(g, g[n].types, done \cup {n})

DepthFirstAll(g, ns, done) ==
  IF ns = <<>> THEN <<>>
  ELSE DepthFirst(g, ns[1], done)
         \o DepthFirstAll(g, Tail(ns),
                          done \cup {DepthFirst(g, ns[1], done)[k] :
                                       k \in 1..Len(DepthFirst(g, ns[1], done))})

\* the second type argument of the first type of the list that is named
\* Hono and has two type arguments or more
FirstHonoSchema(g, order) ==
  IF \E k \in 1..Len(order) : IsHonoType(g[order[k]])
  THEN Some(g[order[CHOOSE k \in 1..Len(order) :
                       /\ IsHonoType(g[order[k]])
                       /\ \A j \in 1..(k - 1) : ~IsHonoType(g[order[j]])]].typeArgs[2])
  ELSE Undefined

\* each type is visited at most once, and the value returned is the one of
\* the first Hono type in depth-first order
C25_VisitedOnceFirstHono ==
  /\ \A j, k \in 1..Len(lookup.visited) : lookup.visited[j] = lookup.visited[k] => j = k
  /\ lookup.pc = "done" => lookup.result = FirstHonoSchema(lookup.graph, DepthFirst(lookup.graph, 1, {}))

\* C25: findHonoSchemaType terminates on every finite type graph, also when
\* a union or intersection is reachable from itself: each type is visited at
\* most once, and the result is the second type argument of the first type
\* named Hono with at least two type arguments met in depth-first order, or
\* undefined when no such type is reachable.
C25_TerminatesWithFirstHono == []C25_VisitedOnceFirstHono /\ <>(lookup.pc = "done")

\* a union that is its own first member and reaches a Hono type through
\* its second member: the schema of that type was returned
C25_Witness ==
  /\ lookup.pc = "done"
  /\ IsUnionOrIntersection(lookup.graph[1])
  /\ lookup.graph[1].types = <<1, 2>>
  /\ lookup.result = Some(TypeArg(2, 2))


(***************************************************************************)
(* runner.ts, runRequestWatchInTerminal.  An invocation waits in           *)
(* resolveInvocationInput while the user is prompted; other invocations    *)
(* may start and end meanwhile.  Everything after that await is one        *)
(* synchronous step.  The record watch holds the position and the path of  *)
(* each invocation, vscode.window.terminals as a list, the calls of        *)
(* dispose so far and the invocations that created a terminal, in order.   *)
(* The list is the editor's: createTerminal adds to it, dispose only marks *)
(* the terminal as disposed, and the terminal leaves the list when the     *)
(* editor reports it closed, at once or any time later.  The function      *)
(* reads the list as it is, disposed terminals included.                   *)
(***************************************************************************)
\* 'Hono Watch: '
W_honoWatch == <<"H","o","n","o"," ","W","a","t","c","h",":"," ">>
\* a terminal the user opened
W_zsh == <<"z","s","h">>

\* `Hono Watch: ${args.path}`
TermName(pth) == W_honoWatch \o pth

\* vscode.window.terminals.find((t) => t.name.startsWith('Hono Watch: ')):
\* the position of the first such terminal, 0 for undefined
FindExisting(terminals) ==
  IF \E k \in 1..Len(terminals) : StartsWithAt(terminals[k].name, W_honoWatch, 0)
  THEN CHOOSE k \in 1..Len(terminals) :
         /\ StartsWithAt(terminals[k].name, W_honoWatch, 0)
         /\ \A j \in 1..(k - 1) : ~StartsWithAt(terminals[j].name, W_honoWatch, 0)
  ELSE 0

Without(seq, k) == SubSeq(seq, 1, k - 1) \o SubSeq(seq, k + 1, Len(seq))

\* a terminal of the list: its name, the invocation that created it (0 for
\* a terminal that was there before) and whether dispose was called on it
Terminal(name, by, disposed) == [name |-> name, by |-> by, disposed |-> disposed]

\* existing.dispose(): the terminal stays in the list until it is closed
Dispose(terminals, existing) ==
  IF existing = 0 THEN terminals
  ELSE [terminals EXCEPT ![existing].disposed = TRUE]

\* existing.sendText('\u0003', false) inside try/catch, existing.dispose(),
\* then createTerminal({ name: termName, cwd })
RestartTerminal(w, i, existing, sendThrows) ==
  [w EXCEPT
     !.inv[i].pc = "done",
     !.inv[i].outcome = "created",
     !.terminals =
        Append(Dispose(w.terminals, existing),
               Terminal(TermName(w.inv[i].path), i, FALSE)),
     !.disposed =
        IF existing = 0 THEN w.disposed
        ELSE Append(w.disposed, [name |-> w.terminals[existing].name,
                                 by |-> w.terminals[existing].by,
                                 interrupted |-> ~sendThrows]),
     !.created = Append(w.created, i)]

MaxInvocations == 3

Invocations == 1..MaxInvocations

WatchPaths == {<<"/", "a">>, <<"/", "b">>}

WatchStart(ts) ==
  [inv |-> [i \in Invocations |-> [pc |-> "idle", path |-> <<>>, outcome |-> "none"]],
   terminals |-> ts, disposed |-> <<>>, created |-> <<>>]

\* the terminals open when the first invocation starts: none, one of the
\* user, and watch terminals left open before, one or two
StartTerminals ==
  {<<>>,
   <<Terminal(W_zsh, 0, FALSE)>>,
   <<Terminal(W_zsh, 0, FALSE), Terminal(TermName(<<"/", "a">>), 0, FALSE)>>,
   <<Terminal(TermName(<<"/", "a">>), 0, FALSE), Terminal(TermName(<<"/", "b">>), 0, FALSE)>>}

InitWatch ==
  /\ op = "none"
  /\ watch \in {WatchStart(ts) : ts \in StartTerminals}
  /\ prog = <<>> /\ text = <<>>
  /\ opts = "omitted" /\ tsFails = FALSE /\ routes = <<>> /\ raised = FALSE
  /\ JSDocVarsIdle
  /\ ParamVarsIdle
  /\ RequestVarsIdle
  /\ LexerVarsIdle
  /\ InferenceVarsIdle
  /\ command = <<>>

WatchTo(w) ==
  /\ op' = "runRequestWatchInTerminal"
  /\ watch' = w
  /\ UNCHANGED <<prog, text, opts, tsFails, routes, raised, reLastIndex, reAtCall,
                 examples, path, values, names, resolved, params, argv, run, lexer,
                 lookup, command>>

\* the command is triggered for a route; without a workspace folder it
\* returns at once, otherwise it awaits resolveInvocationInput
TriggerWatch(i, pth, hasCwd) ==
  /\ watch.inv[i].pc = "idle"
  /\ WatchTo([watch EXCEPT !.inv[i] = [pc |-> IF hasCwd THEN "prompt" ELSE "done",
                                         path |-> pth,
                                         outcome |-> IF hasCwd THEN "none" ELSE "noWorkspace"]])

\* a prompt was cancelled: if (!resolved) return
WatchCancelled(i) ==
  /\ watch.inv[i].pc = "prompt"
  /\ WatchTo([watch EXCEPT !.inv[i].pc = "done", !.inv[i].outcome = "cancelled"])

\* buildInvocation throws: the error is shown, return
WatchBuildFails(i) ==
  /\ watch.inv[i].pc = "prompt"
  /\ WatchTo([watch EXCEPT !.inv[i].pc = "done", !.inv[i].outcome = "error"])

\* the prompts were answered: the rest of the function runs
WatchRestart(i, sendThrows) ==
  /\ watch.inv[i].pc = "prompt"
  /\ WatchTo(RestartTerminal(watch, i, FindExisting(watch.terminals), sendThrows))

\* the editor reports a disposed terminal closed: it leaves the list
TerminalClosed(k) ==
  /\ k \in 1..Len(watch.terminals)
  /\ watch.terminals[k].disposed
  /\ WatchTo([watch EXCEPT !.terminals = Without(@, k)])

NextWatch ==
  \/ \E k \in DOMAIN watch.terminals : TerminalClosed(k)
  \/ \E i \in Invocations, pth \in WatchPaths, hasCwd \in BOOLEAN : TriggerWatch(i, pth, hasCwd)
  \/ \E i \in Invocations : WatchCancelled(i)
  \/ \E i \in Invocations : WatchBuildFails(i)
  \/ \E i \in Invocations, sendThrows \in BOOLEAN : WatchRestart(i, sendThrows)

SpecWatch == InitWatch /\ [][NextWatch]_vars

\* the terminals whose name starts with 'Hono Watch: ' and that were not
\* disposed
WatchTerminals(w) ==
  {k \in 1..Len(w.terminals) :
     StartsWithAt(w.terminals[k].name, W_honoWatch, 0) /\ ~w.terminals[k].disposed}

\* C26: runRequestWatchInTerminal stops and disposes an existing terminal
\* whose name starts with 'Hono Watch: ' before it creates the new one, so
\* that after any sequence of watch invocations, also with overlapping
\* prompt phases, at most one such terminal exists, and it is the one
\* created by the invocation that reached terminal creation last.
C26_OneWatchTerminal ==
  watch.created # <<>> =>
    /\ Cardinality(WatchTerminals(watch)) <= 1
    /\ \A k \in WatchTerminals(watch) :
         watch.terminals[k].by = watch.created[Len(watch.created)]


(***************************************************************************)
(* runner.ts, the run, watch and debug commands around                     *)
(* resolveInvocationInput.  The record command holds the kind of the       *)
(* command, its position, the answers the user gave to the prompts (a      *)
(* cancelled prompt is undefined) and what the command did: the argument   *)
(* lists of the processes spawned, the calls on terminals, the debug       *)
(* sessions started and the errors shown.                                  *)
(***************************************************************************)
CommandKinds == {"run", "watch", "debug"}

CommandStart(kind) ==
  [kind |-> kind, pc |-> "idle", answers |-> <<>>, spawned |-> <<>>, child |-> "none",
   terminalCalls |-> <<>>, debugSessions |-> <<>>, errors |-> <<>>]

\* cfg.nodePath || 'node' with the default configuration
W_node == <<"n","o","d","e">>
\* '\u0003', the character Ctrl+C sends
W_ctrlC == <<"ETX">>

\* the characters quoteForShell leaves unquoted
ShellPlain == Lower \cup Upper \cup Digit \cup {"_", "-", ".", "/", ":", "@"}

\* quoteForShell(w): a word of plain characters as it is, any other word
\* between double quotes with its double quotes escaped
quoteForShell(w) ==
  IF w # <<>> /\ \A k \in 1..Len(w) : w[k] \in ShellPlain THEN w
  ELSE <<"\"">> \o Concat([k \in 1..Len(w) |->
                             IF w[k] = "\"" THEN <<"\\", "\"">> ELSE <<w[k]>>])
         \o <<"\"">>

\* [cmd, ...fullArgs].map(quoteForShell).join(' ')
CommandLine(cmd, fullArgs) ==
  Join([k \in 1..(Len(fullArgs) + 1) |->
          quoteForShell((<<cmd>> \o fullArgs)[k])], <<" ">>)

\* buildInvocation(extensionPath, watch, resolved) with the default request
\* configuration: node and no extra arguments
buildInvocation(watching, input) ==
  buildBundledHonoRequestArgv([entry |-> W_cliEntry, watch |-> watching,
                               input |-> input, extraArgs |-> <<>>])

\* args of the launch configuration of runRequestDebug
DebugArgs(input) ==
  <<W_request, W_optP, input.path, W_optX, toUpperCase(input.method)>>
    \o (IF Truthy(input, "data") THEN <<W_optD, input.data>> ELSE <<>>)
    \o FlatMapHeaders(HeadersOf(input))

\* the calls on terminals of runRequestWatchInTerminal: Ctrl+C to an
\* existing watch terminal and its disposal, then the new terminal, shown
\* and given the command line
WatchTerminalCalls(pth, existing, line) ==
  (IF existing THEN <<<<"sendText", W_ctrlC, FALSE>>, <<"dispose">>>> ELSE <<>>)
    \o <<<<"createTerminal", TermName(pth)>>, <<"show", TRUE>>, <<"sendText", line, TRUE>>>>

\* the command after resolveInvocationInput returned res, up to its return
\* or its next await; entryThrows says whether resolveBundledHonoCliEntry
\* throws, existing whether a watch terminal is found, pth is args.path
AfterResolve(c, res, entryThrows, existing, pth) ==
  IF IsUndefined(res) THEN [c EXCEPT !.pc = "returned"]
  ELSE IF entryThrows
  THEN [c EXCEPT !.pc = "returned",
                 !.errors = Append(@, IF c.kind = "debug"
                                      THEN "Failed to resolve bundled Hono CLI. See Output: Hono"
                                      ELSE "Failed to resolve Hono CLI. See Output: Hono")]
  ELSE IF c.kind = "run"
  THEN [c EXCEPT !.pc = "progress", !.child = "running",
                 !.spawned = Append(@, buildInvocation(FALSE, res.value))]
  ELSE IF c.kind = "watch"
  THEN [c EXCEPT !.pc = "returned",
                 !.terminalCalls =
                    @ \o WatchTerminalCalls(pth, existing,
                                            CommandLine(W_node, buildInvocation(TRUE, res.value)))]
  ELSE [c EXCEPT !.pc = "debugging",
                 !.debugSessions = Append(@, DebugArgs(res.value))]

\* `${code ?? 'null'}`
ExitText(code) == IF IsUndefined(code) THEN "null" ELSE ToString(code.value)

\* child.on('error'): the error is shown and the progress promise resolved
ChildErrored(c) ==
  [c EXCEPT !.child = "errored",
            !.errors = Append(@, "Failed to run Hono CLI (see Output: Hono)")]

\* child.on('close'): any exit code but 0 is shown as a failure, and the
\* progress promise is resolved
ChildClosed(c, code) ==
  [c EXCEPT !.child = "closed",
            !.errors = IF ~IsUndefined(code) /\ code.value = 0 THEN @
                       ELSE Append(@, "Hono request failed (exit " \o ExitText(code)
                                        \o "). See Output: Hono")]

\* runRequestDebug after await startDebugging gave ok
DebugStarted(c, ok) ==
  [c EXCEPT !.pc = "returned",
            !.errors = IF ok THEN @ ELSE Append(@, "Failed to start debug session.")]

InitCommand ==
  /\ op = "none"
  /\ run \in {RunStart(a) : a \in RunArgs}
  /\ command \in {CommandStart(kind) : kind \in CommandKinds}
  /\ watch = <<>>
  /\ params = <<>> /\ argv = <<>>
  /\ RouteVarsIdle
  /\ JSDocVarsIdle
  /\ ParamVarsIdle
  /\ LexerVarsIdle
  /\ InferenceVarsIdle

CommandTo(r, c) ==
  /\ op' = "command"
  /\ run' = r
  /\ command' = c
  /\ UNCHANGED <<prog, text, opts, tsFails, routes, raised, reLastIndex, reAtCall,
                 examples, path, values, names, resolved, params, argv, lexer,
                 lookup, watch>>

\* the command is triggered: without a workspace folder it returns, otherwise
\* it calls resolveInvocationInput and awaits it
TriggerCommand(hasCwd) ==
  /\ command.pc = "idle"
  /\ IF hasCwd
     THEN CommandTo(EnterPathParams(run, extractPathParamNames(run.args.path)),
                    [command EXCEPT !.pc = "awaiting"])
     ELSE CommandTo(run, [command EXCEPT !.pc = "returned",
                                         !.errors = Append(@, "Workspace folder not found.")])

Answered(c, v) == [c EXCEPT !.answers = Append(@, v)]

\* the user answers or cancels the prompt that is shown
AnswerPrompt(v) ==
  /\ command.pc = "awaiting"
  /\ \/ /\ run.pc = "pathParam"
        /\ CommandTo(PathParamAnswered(run, run.names[run.k], v), Answered(command, v))
     \/ /\ run.pc = "rawBody"
        /\ CommandTo(RawBodyAnswered(run, v), Answered(command, v))
     \/ /\ run.pc = "formField"
        /\ CommandTo(FormFieldAnswered(run, run.inferred.value[run.k], v), Answered(command, v))

\* the inference ends with the outcome o
InferenceEnds(o) ==
  /\ command.pc = "awaiting" /\ run.pc = "infer"
  /\ CommandTo(AfterInference([run EXCEPT !.inference =
                                    IF o.kind = "fields" /\ o.fields = <<>> THEN "empty"
                                    ELSE o.kind],
                              inferFormFieldsFromHonoSchema(o)),
               command)

\* the memento settles the update that history.set awaits
SettleStore(fulfilled) ==
  /\ command.pc = "awaiting" /\ run.pc \in StorePcs
  /\ CommandTo(HistorySettled(run, fulfilled), command)

\* the await of resolveInvocationInput throws: the command has no handler
\* around it and ends with that exception
CommandThrows(c) == [c EXCEPT !.pc = "threw"]

\* resolveInvocationInput returned or threw: the command goes on or ends
ResumeCommand(entryThrows, existing) ==
  /\ command.pc = "awaiting" /\ run.pc = "done"
  /\ IF run.threw \/ run.rejected
     THEN CommandTo(run, CommandThrows(command))
     ELSE CommandTo(run, AfterResolve(command, run.result, entryThrows, existing,
                                      run.args.path))

\* what a child process ends with: an exit code, or null when a signal ended it
ExitCodes == {Some(0), Some(1), Undefined}

\* the child emits 'error'
ChildError ==
  /\ command.child = "running"
  /\ CommandTo(run, ChildErrored(command))

\* the child emits 'close', also after an 'error'
ChildClose(code) ==
  /\ command.child \in {"running", "errored"}
  /\ CommandTo(run, ChildClosed(command, code))

\* the progress promise is resolved: withProgress settles and runRequestOnce
\* returns
ProgressEnds ==
  /\ command.pc = "progress" /\ command.child \in {"errored", "closed"}
  /\ CommandTo(run, [command EXCEPT !.pc = "returned"])

\* vscode.debug.startDebugging settles: with a boolean, or rejected, which
\* ends the command with that exception
DebugSettles(outcome) ==
  /\ command.pc = "debugging"
  /\ CommandTo(run, IF outcome = "rejected" THEN CommandThrows(command)
                    ELSE DebugStarted(command, outcome = "started"))

NextCommand ==
  \/ ChildError
  \/ \E code \in ExitCodes : ChildClose(code)
  \/ ProgressEnds
  \/ \E outcome \in {"started", "failed", "rejected"} : DebugSettles(outcome)
  \/ \E fulfilled \in BOOLEAN : SettleStore(fulfilled)
  \/ \E hasCwd \in BOOLEAN : TriggerCommand(hasCwd)
  \/ \E v \in PromptAnswers : AnswerPrompt(v)
  \/ \E o \in InferOutcomes : InferenceEnds(o)
  \/ \E entryThrows, existing \in BOOLEAN : ResumeCommand(entryThrows, existing)

SpecCommand == InitCommand /\ [][NextCommand]_vars

Invoked(c) == c.spawned # <<>> \/ c.terminalCalls # <<>> \/ c.debugSessions # <<>>

WasCancelled(c) == \E k \in 1..Len(c.answers) : IsUndefined(c.answers[k])

\* C27: when the user cancels a path parameter prompt, a form field prompt
\* or the raw body prompt, the run, watch and debug commands end without
\* spawning a process, without disposing or creating a terminal and without
\* starting a debug session; an invocation happens only after every prompt
\* of the request was answered.
C27_CancelEndsCommand ==
  /\ WasCancelled(command) => ~Invoked(command)
  /\ WasCancelled(command) /\ run.pc = "done" => IsUndefined(run.result)
  /\ Invoked(command) =>
       /\ Len(command.answers) = Len(run.prompts)
       /\ \A k \in 1..Len(command.answers) : ~IsUndefined(command.answers[k])

\* a watch command whose path parameter was answered and whose raw body
\* prompt was cancelled has returned
C27_Witness ==
  /\ command.kind = "watch" /\ command.pc = "returned"
  /\ Len(command.answers) = 2
  /\ ~IsUndefined(command.answers[1])
  /\ IsUndefined(command.answers[2])
  /\ run.prompts[2] = historyKey("rawBody", W_last)
  /\ ~Invoked(command)


(***************************************************************************)
(* Texts with constants whose initializer refers to the constant itself,   *)
(* directly or through another constant.                                   *)
(***************************************************************************)
W_A == <<"A">>
W_B == <<"B">>

\* const A = A + '/x'
I_cycSelf == ConstItem(W_A, Bin(Id(W_A), Lit("'", <<"/","x">>)))
\* const A = B
I_cycAB   == ConstItem(W_A, Id(W_B))
\* const B = A
I_cycBA   == ConstItem(W_B, Id(W_A))
\* app.get(A, h)
I_useA    == Route(<<>>, W_app, W_get, Id(W_A))

\* app.get('/a' + '/b', h)
I_binLit  == Route(<<>>, W_app, W_get, Bin(Lit("'", <<"/","a">>), Lit("'", <<"/","b">>)))

PoolCycles == {I_cycSelf, I_cycAB, I_cycBA, I_useA, I_binLit, I_lit}

InitCycles == InitWith(PoolCycles, {"omitted"}, {FALSE})

SpecCycles == InitCycles /\ [][Next]_vars

\* the route call of statement k uses a constant whose resolution calls
\* itself without end, until the call stack is exhausted
UsesCyclicConstant(p, k) ==
  /\ p[k].k = "call" /\ Len(p[k].args) > 0
  /\ resolveRoutePathExpression(p[k].args[1], p, {}).st = "throw"

\* the statements of p without the route calls that use a cyclic constant
RECURSIVE WithoutCyclicUses(_, _)
WithoutCyclicUses(p, k) ==
  IF k > Len(p) THEN <<>>
  ELSE (IF UsesCyclicConstant(p, k) THEN <<>> ELSE <<p[k]>>) \o WithoutCyclicUses(p, k + 1)

MethodsAndPaths(rs) == [k \in 1..Len(rs) |-> <<rs[k].method, rs[k].path>>]

\* C28: path resolution ends with a string or null for every path
\* expression, also when the initializer of a constant refers to that
\* constant directly (const A = A + '/x') or through other constants
\* (const A = B; const B = A); a cyclic declaration makes only the calls
\* that use it unresolvable and leaves the paths emitted for the other
\* route calls of the text as they are without those calls.
C28_CyclicConstantOnlyAffectsItsCalls ==
  Parsed =>
    /\ \A k \in 1..Len(prog) : ~UsesCyclicConstant(prog, k)
    /\ MethodsAndPaths(routes)
         = MethodsAndPaths(parseRoutesFromText(WithoutCyclicUses(prog, 1),
                                               SourceText(WithoutCyclicUses(prog, 1)),
                                               opts, tsFails).routes)


\* the name of one token of the path is a proper prefix of the name of another
HasPrefixNames(p) ==
  \E sa, sb \in TokenSpans(p) :
    /\ Len(TokenName(p, sa)) < Len(TokenName(p, sb))
    /\ SubSeq(TokenName(p, sb), 1, Len(TokenName(p, sa))) = TokenName(p, sa)

\* C29: applyPathParams replaces each :name token with the value of exactly
\* that name: when one parameter name is a proper prefix of another in the
\* same path, as in /:a/:ab, the token :ab is replaced by the encoded value
\* supplied for ab, not by the encoded value for a followed by the letter b;
\* the result is the path with every token replaced independently by its
\* own value.
C29_PrefixNamesReplacedIndependently ==
  op = "applyPathParams" /\ HasPrefixNames(path) =>
    resolved = Substituted(path, 0, values)


(***************************************************************************)
(* Texts whose route calls all have an identifier as receiver and a plain  *)
(* string literal as first argument, in code and in comments, with white   *)
(* space or a comment before the first argument.                           *)
(***************************************************************************)
\* app.get(<newline, two spaces>'/p', h)
I_gapNl == GapItem(I_lit, <<"\n", " ", " ">>)
\* app.get(/* c */ '/p', h)
I_gapC  == GapItem(I_lit, <<"/", "*", " ", "c", " ", "*", "/", " ">>)

PoolPlain == {I_lit, I_litDq, I_noSub, I_lineC, I_blockC, I_gapNl, I_gapC}

InitPlain == InitWith(PoolPlain, Opts, BOOLEAN)

SpecPlain == InitPlain /\ [][Next]_vars

\* the routes of rs whose call starts outside the comments of t
OutsideComments(rs, t) ==
  SelectSeq(rs, LAMBDA r : ~isInRanges(r.callStartIndex, findCommentRanges(t)))

\* C30: for every text in which each route call has a single identifier as
\* receiver and a plain string literal as first argument, and no route-like
\* text stands in a string literal, the syntax-tree strategy and the regex
\* strategy return the same list of routes for the calls outside comments
\* (same methods, paths, callStartIndex values and order), for both values
\* of excludeComments.
C30_StrategiesAgreeOnPlainLiterals ==
  Parsed =>
    OutsideComments(parseRoutesWithRegex(text, opts), text)
      = parseRoutesWithAST(prog, text, opts, FALSE).routes

=============================================================================
